---- MODULE Spec2Model ----
(***************************************************************************)
(* Model of the ephemeris and cycle-timing engine of app.py:               *)
(* RobustAstronomy (julian_day, sun_position, moon_position,               *)
(* planet_position), get_robust_planetary_positions,                       *)
(* calculate_planetary_price_levels and calculate_time_cycles.             *)
(*                                                                         *)
(* Number representation.  Python floats are modelled in fixed point:      *)
(*   - Julian Days are integer ticks, JDScale ticks to the day;            *)
(*   - angles are integer milli-degrees (AngleScale to the degree);        *)
(*   - dimensionless factors (sines, eccentricities, multipliers) are      *)
(*     integers scaled by Unit;                                            *)
(*   - speeds are micro-degrees per day (SpeedScale to the degree/day);    *)
(*   - prices are integer cents (PriceScale to the currency unit).         *)
(* The one place where the float format itself decides a result, the       *)
(* rounding of Python's float %, is modelled by Fl, a binary format with   *)
(* MantissaBits significant bits over the angle quantum.                   *)
(***************************************************************************)
EXTENDS Integers, Sequences, FiniteSets, TLC

VARIABLES
    pc,             \* the calls still to be made, in order
    returned,       \* the calls that have returned a value
    date,           \* civil timestamp handed to julian_day: [year, month, day, hour]
    jd,             \* Julian Day (ticks) returned by julian_day / handed to the solvers
    body,           \* body identifier of a position query
    position,       \* result of a position query: a record, or None
    raised,         \* exception signalled to the caller ("none" when there is none)
    swiss,          \* Swiss Ephemeris: [available, ok (bodies whose calc_ut succeeds), retro]
    planet_data,    \* dict of body states, as returned by get_robust_planetary_positions
    current_price,  \* reference price
    price_levels,   \* dict body -> level set, from calculate_planetary_price_levels
    daily_cycles,   \* list of events, from calculate_time_cycles
    previous_cycles,\* the list the previous call of calculate_time_cycles returned
    level_inputs,   \* [ranges, multiplier, bias] of one level derivation
    levels,         \* the level set derived from level_inputs
    intraday_levels,\* list of hourly Moon levels handed to identify_trading_zones
    trading_zones,  \* [sell_zones, buy_zones, high_prob_times], from identify_trading_zones
    market_type,    \* "Indian" or "Global"
    ist_time,       \* the time of the report, Indian Standard Time
    signals,        \* [entry_signals, exit_signals], from calculate_entry_exit_times
    result          \* the ten-element result of generate_planetary_report

vars == <<pc, returned, date, jd, body, position, raised, swiss, planet_data,
          current_price, price_levels, daily_cycles, previous_cycles, level_inputs,
          levels, intraday_levels, trading_zones, market_type, ist_time, signals,
          result>>

\* the variables of a report that the functions it calls leave alone
report_vars == <<market_type, ist_time, signals, result>>

\* Python's None (also the value of a variable no call has set yet)
None == [none |-> TRUE]

(***************************************************************************)
(* Scales of the fixed-point representation.                               *)
(***************************************************************************)
HourScale == 5 * 6              \* ticks to the hour (a tick is two minutes)
JDScale == 24 * HourScale       \* ticks to the day
AngleScale == 10 * 100          \* milli-degrees
Unit == 1000 * 1000             \* dimensionless factors
SpeedScale == 1000 * 1000       \* micro-degrees per day
PriceScale == 10 * 10           \* cents
Circle == 360 * AngleScale

Abs(v) == IF v < 0 THEN -v ELSE v
Sgn(v) == IF v < 0 THEN -1 ELSE IF v > 0 THEN 1 ELSE 0
Min(a, b) == IF a <= b THEN a ELSE b
Max(a, b) == IF a >= b THEN a ELSE b

(***************************************************************************)
(* Exact a*b = q*c + r without leaving 32-bit integers (0 <= a < c): the   *)
(* multiplier b is taken five bits at a time where 63*c fits, three where   *)
(* 15*c fits, one bit at a time otherwise.                                 *)
(***************************************************************************)
QRStep(h, a, rest, c, radix) ==
    <<radix * h[1] + (radix * h[2] + rest * a) \div c, (radix * h[2] + rest * a) % c>>
RECURSIVE MulQR(_, _, _)
MulQR(a, b, c) ==
    IF b = 0 \/ a <= 2147483647 \div b
    THEN <<(a * b) \div c, (a * b) % c>>
    ELSE IF c <= 2147483647 \div 63
    THEN QRStep(MulQR(a, b \div 32, c), a, b % 32, c, 32)
    ELSE IF c <= 2147483647 \div 15
    THEN QRStep(MulQR(a, b \div 8, c), a, b % 8, c, 8)
    ELSE QRStep(MulQR(a, b \div 2, c), a, b % 2, c, 2)

\* a*b/c rounded to nearest (float multiplication and division)
RoundQR(p, c) == p[1] + (IF 2 * p[2] >= c THEN 1 ELSE 0)
MulDivAbs(aa, bb, c) == (aa \div c) * bb + RoundQR(MulQR(aa % c, bb, c), c)
MulDiv(a, b, c) == Sgn(a) * Sgn(b) * MulDivAbs(Abs(a), Abs(b), c)

\* int(): truncation toward zero of n/d, d > 0
TruncDiv(n, d) == IF n >= 0 THEN n \div d ELSE -((-n) \div d)

(***************************************************************************)
(* Float format: Fl rounds an angle to MantissaBits significant bits       *)
(* (round half to even), the quantum being the finest step.                *)
(***************************************************************************)
MantissaBits == 17

RECURSIVE Ulp(_, _)
Ulp(a, g) == IF a \div g < 2 ^ MantissaBits THEN g ELSE Ulp(a, 2 * g)

RoundToGrid(a, g) ==
    IF 2 * (a % g) < g \/ (2 * (a % g) = g /\ (a \div g) % 2 = 0)
    THEN (a \div g) * g
    ELSE (a \div g + 1) * g
FlAbs(a) == RoundToGrid(a, Ulp(a, 1))
Fl(v) == Sgn(v) * FlAbs(Abs(v))

\* C fmod: exact, with the sign of x
Fmod(x, m) == Sgn(x) * (Abs(x) % m)

\* Python float x % m, m > 0: fmod, then "mod += m" (a rounded float addition)
\* when the remainder is negative
PyModOf(r, m) == IF r < 0 THEN Fl(r + m) ELSE r
PyMod(x, m) == PyModOf(Fmod(x, m), m)

(***************************************************************************)
(* math library on the fixed-point representation.                         *)
(***************************************************************************)
\* product of two Unit-scaled factors
MulUAbs(aa, bb) ==
    (aa \div 1000) * (bb \div 1000)
    + ((aa \div 1000) * (bb % 1000) + (aa % 1000) * (bb \div 1000)
       + ((aa % 1000) * (bb % 1000)) \div 1000 + 500) \div 1000
MulU(a, b) == Sgn(a) * Sgn(b) * MulUAbs(Abs(a), Abs(b))

\* math.radians: milli-degrees (0..Circle) to Unit-scaled radians
Radians(x) == 17 * x + (453 * x + (293 * x) \div 1000 + 500) \div 1000

\* math.degrees: Unit-scaled radians to milli-degrees
Degrees(r) == MulDiv(r, 5729578, 100000000)

\* sine of an angle of the first quadrant, by its Taylor series in r, r2 = r*r
SinSeries(r, r2) ==
    MulU(r, Unit - MulU(r2, Unit - MulU(r2, Unit - MulU(r2, Unit - MulU(r2,
            Unit - r2 \div 110) \div 72) \div 42) \div 20) \div 6)
SinRadians(r) == SinSeries(r, MulU(r, r))
SinQ(x) == SinRadians(Radians(x))

\* math.sin / math.cos of an angle in milli-degrees, Unit-scaled result
FirstQuadrant(x) ==
    IF x <= Circle \div 4 THEN x
    ELSE IF x <= Circle \div 2 THEN Circle \div 2 - x
    ELSE IF x <= 3 * (Circle \div 4) THEN x - Circle \div 2
    ELSE Circle - x
SinReduced(x) == (IF x <= Circle \div 2 THEN 1 ELSE -1) * SinQ(FirstQuadrant(x))
Sin(a) == SinReduced(a % Circle)
Cos(a) == Sin(a + Circle \div 4)

\* math.sqrt of a Unit-scaled value near 1 (Newton's iteration)
SqrtStep(v, s) == (s + MulDiv(v, Unit, s)) \div 2
Sqrt(v) == SqrtStep(v, SqrtStep(v, SqrtStep(v, SqrtStep(v, SqrtStep(v, Unit)))))

\* math.atan2 in milli-degrees: a first estimate by octant, then one
\* Newton step on y*cos(t) - x*sin(t) = 0
OctantRatio(lo, hi) == IF hi = 0 THEN 0 ELSE MulDiv(lo, Unit, hi)
OctantAngle(z) == Degrees(MulU(z, 785398 + MulU(273000, Unit - z)))
Unfold(y, x, a0) ==
    (IF y < 0 THEN -1 ELSE 1)
    * (IF x < 0
       THEN Circle \div 2 - (IF Abs(y) > Abs(x) THEN Circle \div 4 - a0 ELSE a0)
       ELSE (IF Abs(y) > Abs(x) THEN Circle \div 4 - a0 ELSE a0))
Atan2Estimate(y, x) ==
    Unfold(y, x, OctantAngle(OctantRatio(Min(Abs(x), Abs(y)), Max(Abs(x), Abs(y)))))
NewtonStep(t0, num, den) ==
    IF den = 0 THEN t0 ELSE t0 + Degrees(MulDiv(num, Unit, den))
Refine(y, x, t0, s, c) == NewtonStep(t0, MulU(y, c) - MulU(x, s), MulU(x, c) + MulU(y, s))
Refined(y, x, t0) == Refine(y, x, t0, Sin(t0), Cos(t0))
Atan2(y, x) == Refined(y, x, Atan2Estimate(y, x))

(***************************************************************************)
(* RobustAstronomy.julian_day.  hour is in ticks (HourScale to the hour).  *)
(***************************************************************************)
\* julian_day without the Gregorian century correction B
julian_day_no_century(year, month, day, hour) ==
    LET y == IF month <= 2 THEN year - 1 ELSE year
        m == IF month <= 2 THEN month + 12 ELSE month
        JD == (TruncDiv(36525 * (y + 4716), 100) + TruncDiv(306001 * (m + 1), 10000)
               + day) * JDScale - (15245 * JDScale) \div 10
    IN  JD + (hour * JDScale) \div (24 * HourScale)

\* julian_day without the shift of January and February into the prior year
julian_day_no_shift(year, month, day, hour) ==
    LET A == year \div 100
        B == 2 - A + (A \div 4)
        JD == (TruncDiv(36525 * (year + 4716), 100) + TruncDiv(306001 * (month + 1), 10000)
               + day + B) * JDScale - (15245 * JDScale) \div 10
    IN  JD + (hour * JDScale) \div (24 * HourScale)

julian_day(year, month, day, hour) ==
    LET y == IF month <= 2 THEN year - 1 ELSE year
        m == IF month <= 2 THEN month + 12 ELSE month
        A == y \div 100
        B == 2 - A + (A \div 4)
        JD == (TruncDiv(36525 * (y + 4716), 100) + TruncDiv(306001 * (m + 1), 10000)
               + day + B) * JDScale - (15245 * JDScale) \div 10
    IN  JD + (hour * JDScale) \div (24 * HourScale)

J2000 == 2451545 * JDScale

(***************************************************************************)
(* Time argument T = (jd - 2451545.0) / 36525.0 is kept as the rational    *)
(* n / TicksPerCentury, n = jd - J2000; a term c*T is Lin(c, n) and a      *)
(* term c*T*T is Quad(c, n), in the units of c.                            *)
(***************************************************************************)
TicksPerCentury == 36525 * JDScale
Lin(c, n) == MulDiv(c, n, TicksPerCentury)
Quad(c, n) == MulDiv(MulDiv(c, n, TicksPerCentury), n, TicksPerCentury)
\* micro-degrees to milli-degrees
Milli(x) == MulDiv(x, 1, 1000)

(***************************************************************************)
(* RobustAstronomy.sun_position                                            *)
(***************************************************************************)
\* n is jd - J2000 in ticks; L0, M, C are the source's variables
sun_L0(n) == 280466 + Lin(36000770, n) + Milli(Quad(303, n))
\* the mean anomaly taken from the mean longitude
sun_M_as_L0(n) == sun_L0(n)
sun_M(n) == 357529 + Lin(35999050, n) - Milli(Quad(154, n))
sun_C(n, M) ==
    MulU(1914602 - Lin(4817, n) - Quad(14, n), Sin(M))
    + MulU(19993 - Lin(101, n), Sin(2 * M))
    + MulU(289, Sin(3 * M))
sun_result(L0, M, C) ==
    [longitude |-> PyMod(Fl(L0 + Milli(C)), Circle),
     latitude |-> 0,
     distance |-> MulU(1000001, Unit - MulU(16711, Cos(M))),
     speed |-> 985600 + MulU(16700, Sin(M))]
sun_terms(n, M) == sun_result(sun_L0(n), M, sun_C(n, M))
sun_position(j) == sun_terms(j - J2000, sun_M(j - J2000))

(***************************************************************************)
(* RobustAstronomy.moon_position                                           *)
(***************************************************************************)
moon_L_prime(n) == 218316 + Lin(481267881, n) - Milli(Quad(1579, n))
moon_D(n) == 297850 + Lin(445267111, n) - Milli(Quad(1882, n))
moon_M(n) == 357529 + Lin(35999050, n) - Milli(Quad(154, n))
moon_M_prime(n) == 134963 + Lin(477198868, n) + Milli(Quad(8741, n))
moon_F(n) == 93272 + Lin(483202018, n) - Milli(Quad(3654, n))
longitude_correction(D, M, M_prime, F) ==
      MulU(6288774, Sin(M_prime))
    + MulU(1274027, Sin(2 * D - M_prime))
    + MulU(658314, Sin(2 * D))
    + MulU(213618, Sin(2 * M_prime))
    - MulU(185116, Sin(M))
    - MulU(114332, Sin(2 * F))
    + MulU(58793, Sin(2 * D - 2 * M_prime))
    + MulU(57066, Sin(2 * D - M - M_prime))
    + MulU(53322, Sin(2 * D + M_prime))
    + MulU(45758, Sin(2 * D - M))
latitude_correction(D, M_prime, F) ==
      MulU(5128122, Sin(F))
    + MulU(280602, Sin(M_prime + F))
    + MulU(277693, Sin(M_prime - F))
    + MulU(173237, Sin(2 * D - F))
    + MulU(55413, Sin(2 * D - M_prime + F))
moon_result(L_prime, M_prime, lon_corr, lat_corr) ==
    [longitude |-> PyMod(Fl(L_prime + Milli(lon_corr)), Circle),
     latitude |-> Milli(lat_corr),
     distance |-> MulDiv(385000560 - MulU(20905355, Cos(M_prime)), 1000, 384400),
     speed |-> 13176358 + MulU(1434006, Cos(M_prime))]
moon_terms(L_prime, D, M, M_prime, F) ==
    moon_result(L_prime, M_prime, longitude_correction(D, M, M_prime, F),
                latitude_correction(D, M_prime, F))
moon_at(n) == moon_terms(moon_L_prime(n), moon_D(n), moon_M(n), moon_M_prime(n), moon_F(n))
moon_position(j) == moon_at(j - J2000)

(***************************************************************************)
(* RobustAstronomy.planet_position: orbital elements at J2000.0 and their  *)
(* rates per century.  a, e are Unit-scaled, angles are milli-degrees.     *)
(***************************************************************************)
elements ==
    [Mercury |-> [a |-> 387099, e |-> 205636, L |-> 252250, long_peri |-> 77458,
                  a_dot |-> 0, e_dot |-> 19, L_dot |-> 149472674, long_peri_dot |-> 160],
     Venus   |-> [a |-> 723336, e |-> 6777, L |-> 181979, long_peri |-> 131602,
                  a_dot |-> 4, e_dot |-> -41, L_dot |-> 58517815, long_peri_dot |-> 3],
     Mars    |-> [a |-> 1523710, e |-> 93394, L |-> -4553, long_peri |-> -23944,
                  a_dot |-> 18, e_dot |-> 79, L_dot |-> 19140303, long_peri_dot |-> 444],
     Jupiter |-> [a |-> 5202887, e |-> 48386, L |-> 34396, long_peri |-> 14728,
                  a_dot |-> -116, e_dot |-> -133, L_dot |-> 3034746, long_peri_dot |-> 213],
     Saturn  |-> [a |-> 9536676, e |-> 53862, L |-> 49954, long_peri |-> 92599,
                  a_dot |-> -1251, e_dot |-> -510, L_dot |-> 1222494, long_peri_dot |-> -419],
     Uranus  |-> [a |-> 19189165, e |-> 47257, L |-> 313238, long_peri |-> 170954,
                  a_dot |-> -1962, e_dot |-> -44, L_dot |-> 428482, long_peri_dot |-> 408],
     Neptune |-> [a |-> 30069923, e |-> 8590, L |-> -55120, long_peri |-> 44965,
                  a_dot |-> 263, e_dot |-> 51, L_dot |-> 218459, long_peri_dot |-> -322],
     Pluto   |-> [a |-> 39482117, e |-> 248827, L |-> 238929, long_peri |-> 224069,
                  a_dot |-> -316, e_dot |-> 52, L_dot |-> 145208, long_peri_dot |-> -41]]

\* the steps of planet_position after the table lookup, each on the values of
\* the source's variables of the same names
mean_anomaly(L, long_peri) == PyMod(Fl(L - long_peri), Circle)
\* Kepler's equation iterated once more, E = M + e * sin(M + e * sin(M))
eccentric_anomaly_two_steps(e, M) ==
    M + Degrees(MulU(e, Sin(M + Degrees(MulU(e, Sin(M))))))
\* Kepler's equation, first approximation only
eccentric_anomaly(e, M) == M + Degrees(MulU(e, Sin(M)))
true_anomaly(e, E) ==
    2 * Atan2(MulU(Sqrt(Unit + e), Sin(E \div 2)), MulU(Sqrt(Unit - e), Cos(E \div 2)))
\* the result with the rate of the perihelion, long_peri_dot, as the speed
planet_result_peri_rate(elem, a, e, long_peri, E, nu) ==
    [longitude |-> PyMod(Fl(nu + long_peri), Circle),
     latitude |-> 0,
     distance |-> MulU(a, Unit - MulU(e, Cos(E))),
     speed |-> MulDiv(elem.long_peri_dot, 1000, 36525)]
planet_result(elem, a, e, long_peri, E, nu) ==
    [longitude |-> PyMod(Fl(nu + long_peri), Circle),
     latitude |-> 0,
     distance |-> MulU(a, Unit - MulU(e, Cos(E))),
     speed |-> MulDiv(elem.L_dot, 1000, 36525)]
planet_from_E(elem, a, e, long_peri, E) ==
    planet_result(elem, a, e, long_peri, E, true_anomaly(e, E))
planet_from_M(elem, a, e, long_peri, M) ==
    planet_from_E(elem, a, e, long_peri, eccentric_anomaly(e, M))
planet_from_elements(elem, a, e, L, long_peri) ==
    planet_from_M(elem, a, e, long_peri, mean_anomaly(L, long_peri))
planet_at(elem, n) ==
    planet_from_elements(elem,
                         elem.a + Lin(elem.a_dot, n),
                         elem.e + Lin(elem.e_dot, n),
                         elem.L + Lin(elem.L_dot, n),
                         elem.long_peri + Lin(elem.long_peri_dot, n))
planet_position(planet_name, j) ==
    IF planet_name \notin DOMAIN elements
    THEN None
    ELSE planet_at(elements[planet_name], j - J2000)

(***************************************************************************)
(* The ten bodies, in the order get_robust_planetary_positions inserts     *)
(* them into planet_data (Python dicts iterate in insertion order).        *)
(***************************************************************************)
BodyOrder == <<"Sun", "Moon", "Mercury", "Venus", "Mars", "Jupiter", "Saturn",
               "Uranus", "Neptune", "Pluto">>
Bodies == {BodyOrder[i] : i \in DOMAIN BodyOrder}
\* an identifier that names no known body
UnknownBody == "Ceres"

(***************************************************************************)
(* PLANETARY_CYCLES: the critical degrees of each body                     *)
(***************************************************************************)
PLANETARY_CYCLES ==
    [b \in Bodies |->
        [major_degrees |->
            IF b \in {"Uranus", "Neptune", "Pluto"}
            THEN <<0, 180 * AngleScale>>
            ELSE <<0, 90 * AngleScale, 180 * AngleScale, 270 * AngleScale>>]]

(***************************************************************************)
(* get_zodiac_sign                                                         *)
(***************************************************************************)
get_zodiac_sign(longitude) ==
    LET signs == <<"Aries", "Taurus", "Gemini", "Cancer", "Leo", "Virgo", "Libra",
                   "Scorpio", "Sagittarius", "Capricorn", "Aquarius", "Pisces">>
        sign_index == (longitude \div (30 * AngleScale)) % 12
    IN  signs[sign_index + 1]

\* the dict entry that get_robust_planetary_positions stores for one body
BodyState(pos, retrograde) ==
    [longitude |-> pos.longitude,
     latitude |-> pos.latitude,
     distance |-> pos.distance,
     speed |-> pos.speed,
     sign |-> get_zodiac_sign(pos.longitude),
     degree_in_sign |-> PyMod(pos.longitude, 30 * AngleScale),
     retrograde |-> retrograde]

(***************************************************************************)
(* planet_data is a Python dict: its items in insertion order, a sequence  *)
(* of [planet, data].  d[name] = value replaces the value of a key that is *)
(* present, in place, and appends a key that is not.                       *)
(***************************************************************************)
Keys(d) == {d[i].planet : i \in DOMAIN d}
Item(d, name) == d[CHOOSE i \in DOMAIN d : d[i].planet = name].data
dict_set(d, name, value) ==
    IF name \in Keys(d)
    THEN [i \in DOMAIN d |->
            IF d[i].planet = name THEN [planet |-> name, data |-> value] ELSE d[i]]
    ELSE Append(d, [planet |-> name, data |-> value])

(***************************************************************************)
(* calculate_planetary_price_levels                                        *)
(***************************************************************************)
\* percentage half-widths, Unit-scaled percent
planet_ranges ==
    [Sun     |-> [major |-> 1800000, primary |-> 900000, minor |-> 250000],
     Moon    |-> [major |-> 3200000, primary |-> 1600000, minor |-> 450000],
     Mercury |-> [major |-> 1500000, primary |-> 700000, minor |-> 200000],
     Venus   |-> [major |-> 2100000, primary |-> 1100000, minor |-> 350000],
     Mars    |-> [major |-> 4200000, primary |-> 2100000, minor |-> 650000],
     Jupiter |-> [major |-> 3800000, primary |-> 1900000, minor |-> 550000],
     Saturn  |-> [major |-> 2900000, primary |-> 1450000, minor |-> 400000],
     Uranus  |-> [major |-> 5500000, primary |-> 2700000, minor |-> 800000],
     Neptune |-> [major |-> 2500000, primary |-> 1250000, minor |-> 350000],
     Pluto   |-> [major |-> 3500000, primary |-> 1750000, minor |-> 500000]]

\* degrees added to the longitude in planet_multipliers
multiplier_offset ==
    [Sun |-> 0, Moon |-> 90, Mercury |-> 45, Venus |-> 135, Mars |-> 180,
     Jupiter |-> 225, Saturn |-> 270, Uranus |-> 315, Neptune |-> 60, Pluto |-> 120]

\* Unit-scaled
directional_bias ==
    [Sun |-> 0, Moon |-> -200000, Mercury |-> 100000, Venus |-> 150000,
     Mars |-> -300000, Jupiter |-> 250000, Saturn |-> -400000, Uranus |-> 0,
     Neptune |-> -100000, Pluto |-> 50000]

speed_influence(speed) == Min(speed * 5, 30 * SpeedScale) \div 100
base_multiplier(planet_name, longitude) ==
    MulDiv(longitude + multiplier_offset[planet_name] * AngleScale, Unit, Circle)
total_multiplier(planet_name, data) ==
    600000 + MulU(800000, base_multiplier(planet_name, PyMod(data.longitude, Circle)))
    + speed_influence(Abs(data.speed))

\* level_price adding the percentage on the support side too
level_price_unsigned(price, sgn, pct, side_multiplier) ==
    MulDiv(price, Unit + MulDiv(MulU(pct, side_multiplier), 1, 100), Unit)

\* level_price taking the percentage as a fraction (no division by 100)
level_price_no_percent(price, sgn, pct, side_multiplier) ==
    MulDiv(price, Unit + sgn * MulU(pct, side_multiplier), Unit)

\* price * (1 + sgn * (pct * side_multiplier) / 100)
level_price(price, sgn, pct, side_multiplier) ==
    MulDiv(price, Unit + sgn * MulDiv(MulU(pct, side_multiplier), 1, 100), Unit)

levels_from(price, major_pct, primary_pct, minor_pct, resistance_multiplier, support_multiplier) ==
    [Major_Resistance |-> level_price(price, 1, major_pct, resistance_multiplier),
     Primary_Resistance |-> level_price(price, 1, primary_pct, resistance_multiplier),
     Minor_Resistance |-> level_price(price, 1, minor_pct, resistance_multiplier),
     Current_Level |-> price,
     Minor_Support |-> level_price(price, -1, minor_pct, support_multiplier),
     Primary_Support |-> level_price(price, -1, primary_pct, support_multiplier),
     Major_Support |-> level_price(price, -1, major_pct, support_multiplier)]

\* the level set with the factor 1 - bias on both sides of the price
levels_of_one_factor(price, ranges, multiplier, bias) ==
    levels_from(price, MulU(ranges.major, multiplier), MulU(ranges.primary, multiplier),
                MulU(ranges.minor, multiplier), Unit - bias, Unit - bias)

levels_of(price, ranges, multiplier, bias) ==
    levels_from(price, MulU(ranges.major, multiplier), MulU(ranges.primary, multiplier),
                MulU(ranges.minor, multiplier), Unit - bias, Unit + bias)

\* ranges of a body missing from planet_ranges
default_ranges == [major |-> 2 * Unit, primary |-> Unit, minor |-> 3 * (Unit \div 10)]

\* the score counting the degrees left in the sign, 30 - longitude % 30
raw_strength_within_sign(longitude, speed, multiplier) ==
    30 * Unit + speed * 15
    + MulDiv(30 * AngleScale - PyMod(longitude, 30 * AngleScale), 25 * Unit, 30 * AngleScale)
    + multiplier * 30
\* Unit-scaled strength score, before and after the clamp
raw_strength(longitude, speed, multiplier) ==
    30 * Unit + speed * 15
    + MulDiv(Circle - PyMod(longitude, 30 * AngleScale), 25 * Unit, 30 * AngleScale)
    + multiplier * 30
\* the score stored without the clamp
strength_unclamped(longitude, speed, multiplier) == raw_strength(longitude, speed, multiplier)
strength_of(longitude, speed, multiplier) ==
    Min(Max(raw_strength(longitude, speed, multiplier), 10 * Unit), 100 * Unit)

level_entry(planet_name, data, price, longitude, multiplier) ==
    [current_degree |-> longitude,
     speed |-> data.speed,
     sign |-> data.sign,
     levels |-> levels_of(price, planet_ranges[planet_name], multiplier,
                          directional_bias[planet_name]),
     strength |-> strength_of(longitude, Abs(data.speed), multiplier),
     bias |-> directional_bias[planet_name],
     multiplier |-> multiplier,
     retrograde |-> data.retrograde]

planet_levels(planet_name, data, price) ==
    level_entry(planet_name, data, price, PyMod(data.longitude, Circle),
                total_multiplier(planet_name, data))

calculate_planetary_price_levels(pd, price) ==
    [planet_name \in Keys(pd) \cap DOMAIN PLANETARY_CYCLES |->
        planet_levels(planet_name, Item(pd, planet_name), price)]

(***************************************************************************)
(* calculate_time_cycles                                                   *)
(***************************************************************************)
\* speed_per_hour in nano-degrees per hour; the floor 0.001 degree per hour
SpeedFloor == 1000 * 1000
\* speed_per_hour without the floor
speed_per_hour_unfloored(data) == MulDiv(Abs(data.speed), 1000, 24)
speed_per_hour(data) == Max(MulDiv(Abs(data.speed), 1000, 24), SpeedFloor)

\* the remapping taking a distance of exactly 180 to -180 as well
shortest_arc_inclusive(d) == IF d >= 180 * AngleScale THEN d - Circle ELSE d
\* (target - current) % 360, and its remapping when above 180
shortest_arc(d) == IF d > 180 * AngleScale THEN d - Circle ELSE d
\* degrees_to_travel without the remapping of distances above 180
degrees_to_travel_forward(target_degree, current_degree) ==
    (target_degree - current_degree) % Circle
degrees_to_travel(target_degree, current_degree) ==
    shortest_arc((target_degree - current_degree) % Circle)

\* degrees / speed_per_hour in milli-hours, rounded away from zero so that the
\* comparison with the 24 hour horizon is the comparison of the exact quotient
RoundUpQR(p) == p[1] + (IF p[2] > 0 THEN 1 ELSE 0)
hours_to_target(degrees, sph) ==
    Sgn(degrees) * ((Abs(degrees) \div sph) * (1000 * 1000 * 1000)
                    + RoundUpQR(MulQR(Abs(degrees) % sph, 1000 * 1000 * 1000, sph)))

Horizon == 24 * 1000

\* the horizon test leaving out an offset of exactly 0
within_horizon_strict(hours) == 0 < Abs(hours) /\ Abs(hours) <= Horizon
\* 0 <= abs(hours_to_target) <= 24
within_horizon(hours) == 0 <= Abs(hours) /\ Abs(hours) <= Horizon

cycle_event(planet_name, target_degree, hours) ==
    [planet |-> planet_name,
     target_degree |-> target_degree,
     hours_away |-> hours,
     strength |-> Max(50 * 1000 - Abs(hours), 10 * 1000)]

target_cycles(planet_name, target_degree, hours) ==
    IF within_horizon(hours) THEN <<cycle_event(planet_name, target_degree, hours)>>
    ELSE <<>>

\* the events of one body, in the order of its major_degrees
RECURSIVE body_cycles(_, _, _, _)
body_cycles(planet_name, current_degree, sph, targets) ==
    IF targets = <<>> THEN <<>>
    ELSE target_cycles(planet_name, Head(targets),
                       hours_to_target(degrees_to_travel(Head(targets), current_degree), sph))
         \o body_cycles(planet_name, current_degree, sph, Tail(targets))

\* the unsorted list, bodies in dict order
RECURSIVE all_cycles(_, _)
all_cycles(pd, i) ==
    IF i > Len(pd) THEN <<>>
    ELSE (IF pd[i].planet \in DOMAIN PLANETARY_CYCLES
          THEN body_cycles(pd[i].planet, PyMod(pd[i].data.longitude, Circle),
                           speed_per_hour(pd[i].data),
                           PLANETARY_CYCLES[pd[i].planet].major_degrees)
          ELSE <<>>)
         \o all_cycles(pd, i + 1)

\* the sort key without abs()
cycle_key_signed(event) == event.hours_away
\* the sort key of sorted(daily_cycles, key=lambda x: abs(x["hours_away"]))
cycle_key(event) == Abs(event.hours_away)

\* sorted(): stable, ascending by key
RECURSIVE insert_sorted(_, _)
insert_sorted(sorted_list, event) ==
    IF sorted_list = <<>> THEN <<event>>
    ELSE IF cycle_key(event) < cycle_key(Head(sorted_list))
         THEN <<event>> \o sorted_list
         ELSE <<Head(sorted_list)>> \o insert_sorted(Tail(sorted_list), event)

RECURSIVE sorted_cycles(_)
sorted_cycles(list) ==
    IF list = <<>> THEN <<>>
    ELSE insert_sorted(sorted_cycles(SubSeq(list, 1, Len(list) - 1)), list[Len(list)])

calculate_time_cycles(pd) == sorted_cycles(all_cycles(pd, 1))

\* a call that went on appending to the list an earlier call returned
calculate_time_cycles_appending(earlier, pd) == sorted_cycles(earlier \o all_cycles(pd, 1))
\* a call made after an earlier call returned the list `earlier`: daily_cycles = []
\* starts every call from a new empty list
calculate_time_cycles_after(earlier, pd) == calculate_time_cycles(pd)

(***************************************************************************)
(* identify_trading_zones.  price_levels is keyed by body; its items come  *)
(* in the order calculate_planetary_price_levels inserted them, which is   *)
(* the order of planet_data.                                               *)
(***************************************************************************)
items_order(pd, pl) ==
    [i \in DOMAIN SelectSeq(pd, LAMBDA item : item.planet \in DOMAIN pl) |->
        SelectSeq(pd, LAMBDA item : item.planet \in DOMAIN pl)[i].planet]

\* the level names of each side, with level_name.replace("_", " ")
resistance_names ==
    <<[key |-> "Minor_Resistance", shown |-> "Minor Resistance"],
      [key |-> "Primary_Resistance", shown |-> "Primary Resistance"],
      [key |-> "Major_Resistance", shown |-> "Major Resistance"]>>
support_names ==
    <<[key |-> "Minor_Support", shown |-> "Minor Support"],
      [key |-> "Primary_Support", shown |-> "Primary Support"],
      [key |-> "Major_Support", shown |-> "Major Support"]>>

\* the quality tier with the thresholds taken inclusively
zone_strength_inclusive(strength) ==
    IF strength >= 70 * Unit THEN "HIGH" ELSE IF strength >= 50 * Unit THEN "MEDIUM" ELSE "LOW"
zone_strength(strength) ==
    IF strength > 70 * Unit THEN "HIGH" ELSE IF strength > 50 * Unit THEN "MEDIUM" ELSE "LOW"

\* |level_price - current_price| / current_price * 100, Unit-scaled percent,
\* rounded up so that its comparisons with 1.5 and 3.0 are those of the quotient
distance_pct(distance, price) ==
    (distance \div price) * (100 * Unit)
    + RoundUpQR(MulQR(distance % price, 100 * Unit, price))

\* the priority tier with the thresholds taken exclusively
priority_exclusive(pct) ==
    IF 2 * pct < 3 * Unit THEN 1 ELSE IF pct < 3 * Unit THEN 2 ELSE 3
priority(pct) ==
    IF 2 * pct <= 3 * Unit THEN 1 ELSE IF pct <= 3 * Unit THEN 2 ELSE 3

zone(planet, level_name, level, price, strength, pct) ==
    [planet |-> planet,
     level_name |-> level_name,
     price |-> level,
     distance |-> Abs(level - price),
     distance_pct |-> pct,
     strength |-> strength,
     zone_strength |-> zone_strength(strength),
     priority |-> priority(pct)]

\* a level qualifies for the sell side (side = 1) when above the price, for
\* the buy side (side = -1) when below it
qualifies_or_equal(level, price, side) == side * (level - price) >= 0
qualifies(level, price, side) == side * (level - price) > 0

\* the zones of one body on one side, in the order of names
RECURSIVE body_zones(_, _, _, _, _, _)
body_zones(planet, levels_of_body, strength, price, names, side) ==
    IF names = <<>> THEN <<>>
    ELSE (IF Head(names).key \in DOMAIN levels_of_body
             /\ qualifies(levels_of_body[Head(names).key], price, side)
          THEN <<zone(planet, Head(names).shown, levels_of_body[Head(names).key], price,
                      strength,
                      distance_pct(Abs(levels_of_body[Head(names).key] - price), price))>>
          ELSE <<>>)
         \o body_zones(planet, levels_of_body, strength, price, Tail(names), side)

\* the unsorted zones of one side, bodies in dict order; a body without
\* "levels" is skipped and a missing "strength" is taken as 50
RECURSIVE side_zones(_, _, _, _, _)
side_zones(order, pl, price, names, side) ==
    IF order = <<>> THEN <<>>
    ELSE (IF "levels" \in DOMAIN pl[Head(order)]
          THEN body_zones(Head(order), pl[Head(order)].levels,
                          IF "strength" \in DOMAIN pl[Head(order)]
                          THEN pl[Head(order)].strength ELSE 50 * Unit,
                          price, names, side)
          ELSE <<>>)
         \o side_zones(Tail(order), pl, price, names, side)

\* the sort key (priority, distance) compared by priority alone
zone_before_by_priority(a, b) == a.priority < b.priority
\* key=lambda x: (x["priority"], x["distance"])
zone_before(a, b) ==
    a.priority < b.priority \/ (a.priority = b.priority /\ a.distance < b.distance)

\* sell_zones.sort / buy_zones.sort: stable, ascending by key
RECURSIVE insert_zone(_, _)
insert_zone(sorted_list, z) ==
    IF sorted_list = <<>> THEN <<z>>
    ELSE IF zone_before(z, Head(sorted_list)) THEN <<z>> \o sorted_list
    ELSE <<Head(sorted_list)>> \o insert_zone(Tail(sorted_list), z)
RECURSIVE sorted_zones(_)
sorted_zones(list) ==
    IF list = <<>> THEN <<>>
    ELSE insert_zone(sorted_zones(SubSeq(list, 1, Len(list) - 1)), list[Len(list)])

\* high_prob_times.sort(key=lambda x: x["time"])
RECURSIVE insert_time(_, _)
insert_time(sorted_list, w) ==
    IF sorted_list = <<>> THEN <<w>>
    ELSE IF w.time < Head(sorted_list).time THEN <<w>> \o sorted_list
    ELSE <<Head(sorted_list)>> \o insert_time(Tail(sorted_list), w)
RECURSIVE sorted_times(_)
sorted_times(list) ==
    IF list = <<>> THEN <<>>
    ELSE insert_time(sorted_times(SubSeq(list, 1, Len(list) - 1)), list[Len(list)])

\* the keywords a signal string contains
signal_words(signal) ==
    CASE signal = "BUY DIP" -> {"BUY"}
      [] signal = "HOLD SUPPORT" -> {"SUPPORT"}
      [] signal = "SELL RESISTANCE" -> {"SELL", "RESISTANCE"}
      [] OTHER -> {}

\* one entry of high_prob_times, from an intraday level
time_window(level, influence, words) ==
    [time |-> level.time,
     planet |-> level.planet,
     signal |-> level.signal,
     probability |-> IF influence > 7 * (Unit \div 10) THEN "VERY HIGH"
                     ELSE IF influence > 5 * (Unit \div 10) THEN "HIGH"
                     ELSE IF influence > 3 * (Unit \div 10) THEN "MEDIUM" ELSE "LOW",
     action_type |-> IF influence > 7 * (Unit \div 10) THEN "MAJOR TRADE"
                     ELSE IF influence > 5 * (Unit \div 10) THEN "STRONG TRADE"
                     ELSE IF influence > 3 * (Unit \div 10) THEN "MODERATE TRADE"
                     ELSE "WATCH ONLY",
     bias |-> IF words \cap {"BUY", "SUPPORT"} # {} THEN "BUY ZONE"
              ELSE IF words \cap {"SELL", "RESISTANCE"} # {} THEN "SELL ZONE"
              ELSE "NEUTRAL ZONE",
     influence |-> influence,
     price |-> level.price]

RECURSIVE time_windows(_)
time_windows(intraday) ==
    IF intraday = <<>> THEN <<>>
    ELSE <<time_window(Head(intraday), Abs(Head(intraday).influence_pct),
                       signal_words(Head(intraday).signal))>>
         \o time_windows(Tail(intraday))

\* the division by current_price raises on the first level that qualifies when
\* the price is 0, before anything has been appended
zones_error(order, pl, price) ==
    IF /\ price = 0
       /\ \E i \in DOMAIN order : "levels" \in DOMAIN pl[order[i]] /\
             \/ \E k \in DOMAIN resistance_names :
                   /\ resistance_names[k].key \in DOMAIN pl[order[i]].levels
                   /\ qualifies(pl[order[i]].levels[resistance_names[k].key], price, 1)
             \/ \E k \in DOMAIN support_names :
                   /\ support_names[k].key \in DOMAIN pl[order[i]].levels
                   /\ qualifies(pl[order[i]].levels[support_names[k].key], price, -1)
    THEN "ZeroDivisionError" ELSE "none"

\* an exception leaving the function
propagated(exc) == exc
\* except Exception as e: st.warning(...); nothing leaves the function
handled(exc) == "none"

no_zones == [sell_zones |-> <<>>, buy_zones |-> <<>>, high_prob_times |-> <<>>]

identify_trading_zones(order, pl, price, intraday) ==
    IF DOMAIN pl = {} THEN no_zones
    ELSE IF zones_error(order, pl, price) # "none" THEN no_zones
    ELSE [sell_zones |-> sorted_zones(side_zones(order, pl, price, resistance_names, 1)),
          buy_zones |-> sorted_zones(side_zones(order, pl, price, support_names, -1)),
          high_prob_times |-> sorted_times(time_windows(intraday))]

(***************************************************************************)
(* get_robust_planetary_positions.  Swiss Ephemeris is outside the         *)
(* repository: whether it is installed, which of its per-body calls        *)
(* succeed (the call returns a usable tuple and does not raise) and which  *)
(* bodies it reports in retrograde motion are inputs, held in swiss.       *)
(***************************************************************************)
builtin_position(planet_name, j) ==
    IF planet_name = "Sun" THEN sun_position(j)
    ELSE IF planet_name = "Moon" THEN moon_position(j)
    ELSE planet_position(planet_name, j)

\* swe.calc_ut: the library's longitude and speed for a body
swe_result(p, retro) == [p EXCEPT !.speed = IF retro THEN -p.speed ELSE p.speed]
swe_calc_ut(j, planet_name, sw) ==
    swe_result(builtin_position(planet_name, j), planet_name \in sw.retro)

swiss_entry(ret) ==
    BodyState([ret EXCEPT !.longitude = PyMod(ret.longitude, Circle)], ret.speed < 0)

\* the loop over the library's planets: rets holds the answers of swe.calc_ut
\* in the order of the loop (None for a call that fails), and a body is
\* recorded when its call succeeds
RECURSIVE swiss_loop(_, _, _)
swiss_loop(names, rets, d) ==
    IF rets = <<>> THEN d
    ELSE swiss_loop(Tail(names), Tail(rets),
                    IF Head(rets) # None
                    THEN dict_set(d, Head(names), swiss_entry(Head(rets)))
                    ELSE d)

success_count(swiss_data) == Len(swiss_data)

sun_entry(sun_pos) == BodyState(sun_pos, FALSE)
moon_entry(moon_pos) == BodyState(moon_pos, FALSE)
planet_entry(planet_pos) == BodyState(planet_pos, planet_pos.speed < 0)

\* the store that keeps a state already recorded for the body
store_planet_if_absent(d, planet_name, planet_pos) ==
    IF planet_pos # None /\ planet_name \notin Keys(d)
    THEN dict_set(d, planet_name, planet_entry(planet_pos))
    ELSE d
\* "if planet_pos:" skips a body whose planet_position is None
store_planet(d, planet_name, planet_pos) ==
    IF planet_pos # None THEN dict_set(d, planet_name, planet_entry(planet_pos)) ELSE d

PlanetNames == SubSeq(BodyOrder, 3, Len(BodyOrder))

\* positions are the results of planet_position, in the order of the loop
RECURSIVE planets_loop(_, _, _)
planets_loop(names, positions, d) ==
    IF positions = <<>> THEN d
    ELSE planets_loop(Tail(names), Tail(positions),
                      store_planet(d, Head(names), Head(positions)))

\* positions are the built-in positions of the ten bodies, Sun and Moon first
builtin_fill(positions, d) ==
    planets_loop(PlanetNames, SubSeq(positions, 3, Len(positions)),
                 dict_set(dict_set(d, "Sun", sun_entry(positions[1])),
                          "Moon", moon_entry(positions[2])))

positions_after_swiss(j, sw, swiss_data) ==
    IF sw.available /\ success_count(swiss_data) >= 5
    THEN swiss_data
    ELSE builtin_fill([i \in DOMAIN BodyOrder |-> builtin_position(BodyOrder[i], j)],
                      swiss_data)

get_robust_planetary_positions(j, sw) ==
    positions_after_swiss(j, sw,
        IF sw.available
        THEN swiss_loop(BodyOrder,
                        [i \in DOMAIN BodyOrder |->
                            IF BodyOrder[i] \in sw.ok
                            THEN swe_calc_ut(j, BodyOrder[i], sw) ELSE None],
                        <<>>)
        ELSE <<>>)

(***************************************************************************)
(* Times of a report.  A time is counted in units of 1/3000 hour from the  *)
(* midnight that starts the UTC date of the report; its time of day is its *)
(* remainder modulo one day.                                               *)
(***************************************************************************)
TimeScale == 3 * 1000

\* datetime arithmetic raises OverflowError past 9999-12-31 23:59:59.999999:
\* ist_time = tehran_time + 2 hours is utc_time + 5 hours 30
time_conversion_error(d) ==
    IF d.year = 9999 /\ d.month = 12 /\ d.day = 31 /\ 2 * d.hour >= 37 * HourScale
    THEN "OverflowError" ELSE "none"
ist_time_of(d) == d.hour * (TimeScale \div HourScale) + 5 * TimeScale + TimeScale \div 2

\* start <= dt.time() <= end: 9:15 to 15:30 (Indian), 5:00 to 23:55 otherwise
is_within_market_hours(dt, market) ==
    IF market = "Indian"
    THEN /\ 9 * TimeScale + TimeScale \div 4 <= dt % (24 * TimeScale)
         /\ dt % (24 * TimeScale) <= 15 * TimeScale + TimeScale \div 2
    ELSE /\ 5 * TimeScale <= dt % (24 * TimeScale)
         /\ 12 * (dt % (24 * TimeScale)) <= (23 * 12 + 11) * TimeScale

(***************************************************************************)
(* calculate_intraday_levels                                               *)
(***************************************************************************)
\* (longitude + speed / 24 * hour_offset) % 360
future_longitude(data, hour_offset) ==
    PyMod(data.longitude + MulDiv(data.speed * hour_offset, 1, 24 * 1000), Circle)

\* sin(radians(future_moon_deg)) * 0.8, a Unit-scaled percentage
moon_influence(moon, hour_offset) ==
    MulU(8 * (Unit \div 10), Sin(future_longitude(moon, hour_offset)))

\* the signal naming a buy and a support for an influence below -0.5
intraday_signal_by_side(influence) ==
    IF influence < -(5 * (Unit \div 10)) THEN "BUY DIP"
    ELSE IF influence > 5 * (Unit \div 10) THEN "SELL RESISTANCE" ELSE "MONITOR"
intraday_signal(influence) ==
    IF Abs(influence) > 5 * (Unit \div 10) THEN "PRIME SCALP" ELSE "MONITOR"

intraday_level(price, target_time, influence) ==
    [time |-> target_time,
     price |-> MulDiv(price, Unit + MulDiv(influence, 1, 100), Unit),
     planet |-> "Moon",
     level_type |-> IF influence < -(3 * (Unit \div 10)) THEN "Moon Support"
                    ELSE IF influence > 3 * (Unit \div 10) THEN "Moon Resistance"
                    ELSE "Moon Neutral",
     signal |-> intraday_signal(influence),
     influence_pct |-> influence]

calculate_intraday_levels(price, pd, ist) ==
    IF "Moon" \notin Keys(pd) THEN <<>>
    ELSE [hour_offset \in 1..12 |->
            intraday_level(price, ist + hour_offset * TimeScale,
                           moon_influence(Item(pd, "Moon"), hour_offset))]

(***************************************************************************)
(* classify_planetary_influence                                            *)
(***************************************************************************)
influences ==
    [Sun     |-> [bullish_degrees |-> {0, 30, 60, 120, 150, 240, 270, 300},
                  bearish_degrees |-> {90, 180, 210, 330},
                  base_influence |-> "NEUTRAL"],
     Moon    |-> [bullish_degrees |-> {0, 30, 60, 90, 120, 150},
                  bearish_degrees |-> {180, 210, 240, 270, 300, 330},
                  base_influence |-> "VOLATILE"],
     Mercury |-> [bullish_degrees |-> {0, 60, 120, 240, 300},
                  bearish_degrees |-> {90, 180, 270},
                  base_influence |-> "NEUTRAL"],
     Venus   |-> [bullish_degrees |-> {0, 30, 60, 120, 150, 180, 240, 300},
                  bearish_degrees |-> {90, 270},
                  base_influence |-> "BULLISH"],
     Mars    |-> [bullish_degrees |-> {0, 60, 120, 240, 300},
                  bearish_degrees |-> {90, 180, 270},
                  base_influence |-> "VOLATILE"],
     Jupiter |-> [bullish_degrees |-> {0, 30, 60, 90, 120, 150, 240, 300},
                  bearish_degrees |-> {180, 270},
                  base_influence |-> "BULLISH"],
     Saturn  |-> [bullish_degrees |-> {60, 120, 240, 300},
                  bearish_degrees |-> {0, 90, 180, 270},
                  base_influence |-> "BEARISH"],
     Uranus  |-> [bullish_degrees |-> {0, 120, 240},
                  bearish_degrees |-> {90, 180, 270},
                  base_influence |-> "VOLATILE"],
     Neptune |-> [bullish_degrees |-> {120, 240},
                  bearish_degrees |-> {90, 180, 270},
                  base_influence |-> "NEUTRAL"],
     Pluto   |-> [bullish_degrees |-> {60, 120, 240, 300},
                  bearish_degrees |-> {90, 180, 270},
                  base_influence |-> "NEUTRAL"]]

\* min(abs(longitude - deg) for deg in degrees) < 15
near_degree(longitude, degrees) ==
    \E deg \in degrees : Abs(longitude - deg * AngleScale) < 15 * AngleScale

degree_influence(config, longitude) ==
    IF near_degree(longitude, config.bullish_degrees) THEN "BULLISH"
    ELSE IF near_degree(longitude, config.bearish_degrees) THEN "BEARISH"
    ELSE config.base_influence

retrograde_modification(classification, retrograde) ==
    IF ~retrograde THEN classification
    ELSE IF classification = "BULLISH" THEN "NEUTRAL"
    ELSE IF classification = "NEUTRAL" THEN "BEARISH"
    ELSE classification

\* the classification returned (the reason text is left out)
classify_planetary_influence(planet_name, data) ==
    retrograde_modification(
        degree_influence(IF planet_name \in DOMAIN influences THEN influences[planet_name]
                         ELSE [bullish_degrees |-> {}, bearish_degrees |-> {},
                               base_influence |-> "NEUTRAL"],
                         data.longitude),
        data.retrograde)

(***************************************************************************)
(* calculate_entry_exit_times                                              *)
(***************************************************************************)
\* the classification of each body of planet_data at its projected longitude,
\* in dict order
classifications_at(pd, hour_offset) ==
    [i \in DOMAIN pd |->
        [planet |-> pd[i].planet,
         classification |->
            classify_planetary_influence(
                pd[i].planet,
                [pd[i].data EXCEPT !.longitude = future_longitude(pd[i].data, hour_offset)])]]

planet_count(found, classification) ==
    Cardinality({i \in DOMAIN found : found[i].classification = classification})

\* key_influences[:3]: the major bullish planets found bullish and the major
\* bearish planets found bearish, in dict order
key_influences(found) ==
    LET major == SelectSeq(found,
                     LAMBDA k :
                        \/ k.classification = "BULLISH" /\ k.planet \in {"Venus", "Jupiter", "Sun"}
                        \/ k.classification = "BEARISH" /\ k.planet \in {"Mars", "Saturn", "Pluto"})
    IN  SubSeq(major, 1, Min(3, Len(major)))

\* the confidence without the cap
confidence_uncapped(signal_strength) == signal_strength * 20
confidence(signal_strength) == Min(signal_strength * 20, 95)

\* a signal; side is 1 for a long entry and -1 for a short entry / long exit
entry_exit_signal(target_time, side, price, bullish_count, bearish_count, key) ==
    [time |-> target_time,
     signal_type |-> IF side = 1 THEN "LONG ENTRY" ELSE "SHORT ENTRY / LONG EXIT",
     confidence |-> confidence(Abs(bullish_count - bearish_count)),
     bullish_planets |-> bullish_count,
     bearish_planets |-> bearish_count,
     key_influences |-> key,
     price_target |-> MulDiv(price, 1000 + side * 8 * Abs(bullish_count - bearish_count), 1000),
     stop_loss |-> MulDiv(price, 1000 - side * 4 * Abs(bullish_count - bearish_count), 1000)]

\* what the classifications found for one hour append to entry_signals
\* (side = 1) or to exit_signals (side = -1)
signals_at(target_time, side, price, found) ==
    IF /\ side * (planet_count(found, "BULLISH") - planet_count(found, "BEARISH")) >= 2
       /\ planet_count(found, IF side = 1 THEN "BULLISH" ELSE "BEARISH") >= 3
    THEN <<entry_exit_signal(target_time, side, price, planet_count(found, "BULLISH"),
                             planet_count(found, "BEARISH"), key_influences(found))>>
    ELSE <<>>

\* the signals of one side for the hour offsets from hour_offset to 23; an
\* hour outside market hours is skipped
RECURSIVE side_signals(_, _, _, _, _, _)
side_signals(pd, ist, price, market, side, hour_offset) ==
    IF hour_offset > 23 THEN <<>>
    ELSE (IF is_within_market_hours(ist + hour_offset * TimeScale, market)
          THEN signals_at(ist + hour_offset * TimeScale, side, price,
                          classifications_at(pd, hour_offset))
          ELSE <<>>)
         \o side_signals(pd, ist, price, market, side, hour_offset + 1)

\* sort(key=lambda x: x["confidence"], reverse=True): stable, descending
RECURSIVE insert_signal(_, _)
insert_signal(sorted_list, s) ==
    IF sorted_list = <<>> THEN <<s>>
    ELSE IF s.confidence > Head(sorted_list).confidence THEN <<s>> \o sorted_list
    ELSE <<Head(sorted_list)>> \o insert_signal(Tail(sorted_list), s)
RECURSIVE sorted_signals(_)
sorted_signals(list) ==
    IF list = <<>> THEN <<>>
    ELSE insert_signal(sorted_signals(SubSeq(list, 1, Len(list) - 1)), list[Len(list)])

calculate_entry_exit_times(pd, ist, price, market) ==
    [entry_signals |-> sorted_signals(side_signals(pd, ist, price, market, 1, 0)),
     exit_signals |-> sorted_signals(side_signals(pd, ist, price, market, -1, 0))]

(***************************************************************************)
(* generate_planetary_report                                               *)
(***************************************************************************)
\* an exception raised by a step of the report leaves the try block, and
\* "if not planet_data" returns at once: the remaining steps are skipped and
\* the return of the result is what runs next
skip_to_return(calls) ==
    IF calls[Len(calls)] = "generate_planetary_report"
    THEN <<"generate_planetary_report">> ELSE Tail(calls)

\* [x for x in list if is_within_market_hours(x[time], market_type)], the
\* time of a cycle being ist_time + hours_away
cycles_within_market_hours(cycles, ist, market) ==
    SelectSeq(cycles,
              LAMBDA c : is_within_market_hours(ist + 3 * c.hours_away + 24 * TimeScale,
                                                market))
within_market_hours(list, market) ==
    SelectSeq(list, LAMBDA x : is_within_market_hours(x.time, market))

\* an element of the result that is not None
Some(x) == [value |-> x]

\* return None, None, None, None, None, None, None, None, None, None
no_data == [i \in 1..10 |-> None]

\* the result that ignores the exception and the missing positions
report_outcome_unchecked(exc, pd, pl, cycles, intraday, zones, sig, market) ==
    <<Some("report"), Some(pl), Some(cycles), Some(intraday), Some(zones),
      Some(zones), Some(zones), Some(sig), Some(sig), Some("full_day_transits")>>

\* the result of the report: the except clause and "if not planet_data" give
\* the all-None result; the report text and the transits are not modelled further
report_outcome(exc, pd, pl, cycles, intraday, zones, sig, market) ==
    IF exc # "none" THEN no_data
    ELSE IF pd = <<>> THEN no_data
    ELSE <<Some("report"), Some(pl), Some(cycles), Some(intraday),
           Some(zones.sell_zones), Some(zones.buy_zones),
           Some(within_market_hours(zones.high_prob_times, market)),
           Some(sig.entry_signals), Some(sig.exit_signals), Some("full_day_transits")>>

(***************************************************************************)
(* Inputs of the model.                                                    *)
(***************************************************************************)
MinYear == 1900
MaxYear == 2100
HourSamples == {0, 12 * HourScale, 24 * HourScale - 1}

IsLeap(y) == y % 4 = 0 /\ (y % 100 # 0 \/ y % 400 = 0)
DaysInMonth(y, m) ==
    IF m = 2 THEN (IF IsLeap(y) THEN 29 ELSE 28)
    ELSE IF m \in {4, 6, 9, 11} THEN 30 ELSE 31

\* Julian Days handed to the position solvers: the epoch, the two ends of the
\* supported range, and every tick of WindowHours hours of 2 January 2000
WindowStart == 16
WindowHours == 3
JDSamples ==
    {J2000, julian_day(MinYear, 1, 1, 0), julian_day(MaxYear, 12, 31, 24 * HourScale - 1)}
    \cup {julian_day(2000, 1, 2, h) :
            h \in (WindowStart * HourScale)..((WindowStart + WindowHours) * HourScale - 1)}

\* body states handed to the level and cycle functions: longitudes on a grid of
\* LonGrid points and around the critical degrees, speeds in micro-degrees per day
LonGrid == 8
LonSamples ==
    {k * (Circle \div LonGrid) : k \in 0..(LonGrid - 1)}
    \cup {10, 24, 25, 500, 12000, 66000, 89000, 123456, 179990, 269976, 335999,
          336000, 359990}
SpeedSamples == {0, 23000, 24000, -500000, 985600, 13176358, 24 * SpeedScale}
LonFew == {0, 500, 89000, 336000}
SpeedFew == {0, -985600, 13176358, 24 * SpeedScale}
SeveralBodies == <<"Moon", "Sun", "Saturn">>
\* reference prices in cents
PriceSamples == {1, 100 * PriceScale, 6543210}

SampleState(lon, speed) ==
    BodyState([longitude |-> lon, latitude |-> 0, distance |-> Unit, speed |-> speed],
              speed < 0)
Entry(planet_name, lon, speed) == [planet |-> planet_name, data |-> SampleState(lon, speed)]

\* UTC timestamps of a report, and what Swiss Ephemeris does during it
ReportDates ==
    {[year |-> 2000, month |-> 1, day |-> 1, hour |-> 12 * HourScale],
     [year |-> 2000, month |-> 1, day |-> 2, hour |-> 17 * HourScale],
     [year |-> 2024, month |-> 2, day |-> 29, hour |-> (7 * HourScale) \div 2],
     [year |-> MinYear, month |-> 1, day |-> 1, hour |-> 0],
     [year |-> MaxYear, month |-> 12, day |-> 31, hour |-> 24 * HourScale - 1]}

\* the first k and the last k bodies of the loop over the library's planets
FirstBodies(k) == {BodyOrder[i] : i \in 1..k}
LastBodies(k) == {BodyOrder[i] : i \in (Len(BodyOrder) - k + 1)..Len(BodyOrder)}
SwissSamples ==
    {[available |-> FALSE, ok |-> {}, retro |-> {}]}
    \cup {[available |-> TRUE, ok |-> o, retro |-> r] :
            o \in {FirstBodies(k) : k \in 0..Len(BodyOrder)}
                  \cup {LastBodies(k) : k \in 0..Len(BodyOrder)},
            r \in {{}, {"Mercury"}}}

(***************************************************************************)
(* State machine.  pc is the list of calls still to be made; each action   *)
(* is one call of the function it is named after.                          *)
(***************************************************************************)
Done == pc = <<>>

JulianDay ==
    /\ pc # <<>> /\ Head(pc) = "julian_day"
    /\ jd' = julian_day(date.year, date.month, date.day, date.hour)
    /\ pc' = Tail(pc)
    /\ returned' = returned \cup {"julian_day"}
    /\ UNCHANGED <<date, body, position, raised, swiss, planet_data,
                   current_price, price_levels, daily_cycles>>
    /\ UNCHANGED <<previous_cycles, level_inputs, levels, intraday_levels, trading_zones>>
    /\ UNCHANGED report_vars

SunPosition ==
    /\ pc # <<>> /\ Head(pc) = "position"
    /\ body = "Sun"
    /\ position' = sun_position(jd)
    /\ pc' = Tail(pc)
    /\ returned' = returned \cup {"position"}
    /\ UNCHANGED <<date, jd, body, raised, swiss, planet_data,
                   current_price, price_levels, daily_cycles>>
    /\ UNCHANGED <<previous_cycles, level_inputs, levels, intraday_levels, trading_zones>>
    /\ UNCHANGED report_vars

MoonPosition ==
    /\ pc # <<>> /\ Head(pc) = "position"
    /\ body = "Moon"
    /\ position' = moon_position(jd)
    /\ pc' = Tail(pc)
    /\ returned' = returned \cup {"position"}
    /\ UNCHANGED <<date, jd, body, raised, swiss, planet_data,
                   current_price, price_levels, daily_cycles>>
    /\ UNCHANGED <<previous_cycles, level_inputs, levels, intraday_levels, trading_zones>>
    /\ UNCHANGED report_vars

\* planet_position returns None for a name outside its table; it raises nothing
PlanetPosition ==
    /\ pc # <<>> /\ Head(pc) = "position"
    /\ body \notin {"Sun", "Moon"}
    /\ position' = planet_position(body, jd)
    /\ pc' = Tail(pc)
    /\ returned' = returned \cup {"position"}
    /\ UNCHANGED <<date, jd, body, raised, swiss, planet_data,
                   current_price, price_levels, daily_cycles>>
    /\ UNCHANGED <<previous_cycles, level_inputs, levels, intraday_levels, trading_zones>>
    /\ UNCHANGED report_vars

GetRobustPlanetaryPositions ==
    /\ pc # <<>> /\ Head(pc) = "get_robust_planetary_positions"
    /\ planet_data' = get_robust_planetary_positions(jd, swiss)
    /\ pc' = IF planet_data' = <<>> THEN skip_to_return(pc) ELSE Tail(pc)
    /\ returned' = returned \cup {"get_robust_planetary_positions"}
    /\ UNCHANGED <<date, jd, body, position, raised, swiss,
                   current_price, price_levels, daily_cycles>>
    /\ UNCHANGED <<previous_cycles, level_inputs, levels, intraday_levels, trading_zones>>
    /\ UNCHANGED report_vars

CalculatePlanetaryPriceLevels ==
    /\ pc # <<>> /\ Head(pc) = "calculate_planetary_price_levels"
    /\ price_levels' = calculate_planetary_price_levels(planet_data, current_price)
    /\ pc' = Tail(pc)
    /\ returned' = returned \cup {"calculate_planetary_price_levels"}
    /\ UNCHANGED <<date, jd, body, position, raised, swiss, planet_data,
                   current_price, daily_cycles>>
    /\ UNCHANGED <<previous_cycles, level_inputs, levels, intraday_levels, trading_zones>>
    /\ UNCHANGED report_vars

\* the float division degrees_to_travel / speed_per_hour raises ZeroDivisionError
\* on a zero divisor
divides_by_zero(pd) ==
    \E i \in DOMAIN pd :
        pd[i].planet \in DOMAIN PLANETARY_CYCLES /\ speed_per_hour(pd[i].data) = 0

CalculateTimeCycles ==
    /\ pc # <<>> /\ Head(pc) = "calculate_time_cycles"
    /\ IF divides_by_zero(planet_data)
       THEN /\ raised' = "ZeroDivisionError"
            /\ UNCHANGED <<daily_cycles, previous_cycles, returned>>
       ELSE IF "calculate_time_cycles" \in returned
       THEN /\ daily_cycles' = calculate_time_cycles_after(daily_cycles, planet_data)
            /\ previous_cycles' = daily_cycles
            /\ returned' = returned \cup {"calculate_time_cycles again"}
            /\ UNCHANGED raised
       ELSE /\ daily_cycles' = calculate_time_cycles_after(<<>>, planet_data)
            /\ returned' = returned \cup {"calculate_time_cycles"}
            /\ UNCHANGED <<raised, previous_cycles>>
    /\ pc' = IF divides_by_zero(planet_data) THEN skip_to_return(pc) ELSE Tail(pc)
    /\ UNCHANGED <<date, jd, body, position, swiss, planet_data,
                   current_price, price_levels>>
    /\ UNCHANGED <<level_inputs, levels, intraday_levels, trading_zones>>
    /\ UNCHANGED report_vars

(***************************************************************************)
(* SpecJD: julian_day on every valid Gregorian date of the supported range *)
(***************************************************************************)
InitJD ==
    /\ pc = <<"julian_day">>
    /\ returned = {}
    /\ \E y \in MinYear..MaxYear, m \in 1..12, h \in HourSamples :
          \E d \in 1..DaysInMonth(y, m) :
             date = [year |-> y, month |-> m, day |-> d, hour |-> h]
    /\ jd = None
    /\ body = None
    /\ position = None
    /\ raised = "none"
    /\ swiss = None
    /\ planet_data = None
    /\ current_price = None
    /\ price_levels = None
    /\ daily_cycles = None
    /\ previous_cycles = None
    /\ level_inputs = None
    /\ levels = None
    /\ intraday_levels = None
    /\ trading_zones = None
    /\ market_type = None
    /\ ist_time = None
    /\ signals = None
    /\ result = None

NextJD == JulianDay
SpecJD == InitJD /\ [][NextJD]_vars

(***************************************************************************)
(* SpecPosition: a position solver called for one body and one Julian Day  *)
(***************************************************************************)
InitPosition ==
    /\ pc = <<"position">>
    /\ returned = {}
    /\ date = None
    /\ jd \in JDSamples
    /\ body \in Bodies \cup {UnknownBody}
    /\ position = None
    /\ raised = "none"
    /\ swiss = None
    /\ planet_data = None
    /\ current_price = None
    /\ price_levels = None
    /\ daily_cycles = None
    /\ previous_cycles = None
    /\ level_inputs = None
    /\ levels = None
    /\ intraday_levels = None
    /\ trading_zones = None
    /\ market_type = None
    /\ ist_time = None
    /\ signals = None
    /\ result = None

NextPosition == SunPosition \/ MoonPosition \/ PlanetPosition
SpecPosition == InitPosition /\ [][NextPosition]_vars

(***************************************************************************)
(* SpecEngine: the level and cycle functions called on a dict of body      *)
(* states: empty, of one body, or of SeveralBodies.                        *)
(***************************************************************************)
InitEngine ==
    /\ pc \in {<<"calculate_planetary_price_levels">>, <<"calculate_time_cycles">>,
              <<"calculate_time_cycles", "calculate_time_cycles">>}
    /\ returned = {}
    /\ date = None
    /\ jd = None
    /\ body = None
    /\ position = None
    /\ raised = "none"
    /\ swiss = None
    /\ \/ planet_data = <<>>
       \/ \E b \in Bodies, l \in LonSamples, s \in SpeedSamples :
             planet_data = <<Entry(b, l, s)>>
       \/ \E l \in [DOMAIN SeveralBodies -> LonFew], s \in [DOMAIN SeveralBodies -> SpeedFew] :
             planet_data = [i \in DOMAIN SeveralBodies |-> Entry(SeveralBodies[i], l[i], s[i])]
    /\ current_price \in PriceSamples
    /\ price_levels = None
    /\ daily_cycles = None
    /\ previous_cycles = None
    /\ level_inputs = None
    /\ levels = None
    /\ intraday_levels = None
    /\ trading_zones = None
    /\ market_type = None
    /\ ist_time = None
    /\ signals = None
    /\ result = None

NextEngine == CalculatePlanetaryPriceLevels \/ CalculateTimeCycles
SpecEngine == InitEngine /\ [][NextEngine]_vars

(***************************************************************************)
(* SpecLevels: the derivation of one level set (percentages, side          *)
(* multipliers, levels) from a reference price, a range row, a multiplier  *)
(* and a bias.                                                             *)
(***************************************************************************)
RangeSamples == {planet_ranges[b] : b \in Bodies} \cup {default_ranges}
MultiplierSamples == {6 * (Unit \div 10), Unit, 1425000, 2399999}
BiasSamples == {directional_bias[b] : b \in Bodies}

DeriveLevels ==
    /\ pc # <<>> /\ Head(pc) = "levels"
    /\ levels' = levels_of(current_price, level_inputs.ranges, level_inputs.multiplier,
                           level_inputs.bias)
    /\ pc' = Tail(pc)
    /\ returned' = returned \cup {"levels"}
    /\ UNCHANGED <<date, jd, body, position, raised, swiss, planet_data, current_price,
                   price_levels, daily_cycles>>
    /\ UNCHANGED <<previous_cycles, level_inputs, intraday_levels, trading_zones>>
    /\ UNCHANGED report_vars

InitLevels ==
    /\ pc = <<"levels">>
    /\ returned = {}
    /\ date = None
    /\ jd = None
    /\ body = None
    /\ position = None
    /\ raised = "none"
    /\ swiss = None
    /\ planet_data = None
    /\ current_price \in PriceSamples
    /\ price_levels = None
    /\ daily_cycles = None
    /\ previous_cycles = None
    /\ level_inputs \in [ranges : RangeSamples, multiplier : MultiplierSamples,
                          bias : BiasSamples]
    /\ levels = None
    /\ intraday_levels = None
    /\ trading_zones = None
    /\ market_type = None
    /\ ist_time = None
    /\ signals = None
    /\ result = None

NextLevels == DeriveLevels
SpecLevels == InitLevels /\ [][NextLevels]_vars

(***************************************************************************)
(* SpecZones: identify_trading_zones on sampled level sets of one or two   *)
(* bodies (levels on both sides of the price, equal to it, and at the      *)
(* priority thresholds), sampled strengths and sampled intraday levels.    *)
(***************************************************************************)
ZonePrices == {0, 100 * PriceScale}
LevelSet(r1, r2, r3, c, s1, s2, s3) ==
    [Major_Resistance |-> r3, Primary_Resistance |-> r2, Minor_Resistance |-> r1,
     Current_Level |-> c,
     Minor_Support |-> s1, Primary_Support |-> s2, Major_Support |-> s3]
ZoneLevelSamples ==
    {LevelSet(10030, 10100, 10200, 10000, 9970, 9900, 9800),
     LevelSet(10120, 10150, 10400, 10000, 9880, 9850, 9600),
     LevelSet(10000, 10151, 10300, 10000, 10000, 9849, 9700),
     LevelSet(10301, 9990, 10050, 10000, 9699, 10010, 9950),
     LevelSet(0, 0, 0, 0, 0, 0, 0)}
StrengthSamples ==
    {10 * Unit, 50 * Unit, 50 * Unit + 1, 70 * Unit, 70 * Unit + 1, 100 * Unit}
ZoneDataSamples ==
    {[levels |-> l, strength |-> st] : l \in ZoneLevelSamples, st \in StrengthSamples}
    \cup {[levels |-> LevelSet(10030, 10100, 10200, 10000, 9970, 9900, 9800)],
          [strength |-> 80 * Unit]}
ZoneBodies == {"Sun", "Moon"}
IntradayLevel(t, signal, influence_pct) ==
    [time |-> t, planet |-> "Moon", signal |-> signal, influence_pct |-> influence_pct,
     price |-> 100 * PriceScale + influence_pct \div 10000]
IntradaySamples ==
    {<<>>,
     <<IntradayLevel(3, "MONITOR", 200000), IntradayLevel(1, "PRIME SCALP", -750000),
       IntradayLevel(2, "BUY DIP", 550000)>>,
     <<IntradayLevel(2, "SELL RESISTANCE", 310000), IntradayLevel(2, "HOLD SUPPORT", -700000)>>}

IdentifyTradingZones ==
    /\ pc # <<>> /\ Head(pc) = "identify_trading_zones"
    /\ trading_zones' = identify_trading_zones(items_order(planet_data, price_levels),
                                              price_levels, current_price, intraday_levels)
    /\ raised' = IF DOMAIN price_levels = {} THEN raised
                 ELSE handled(zones_error(items_order(planet_data, price_levels),
                                          price_levels, current_price))
    /\ pc' = Tail(pc)
    /\ returned' = returned \cup {"identify_trading_zones"}
    /\ UNCHANGED <<date, jd, body, position, swiss, planet_data, current_price,
                   price_levels, daily_cycles>>
    /\ UNCHANGED <<previous_cycles, level_inputs, levels, intraday_levels>>
    /\ UNCHANGED report_vars

InitZones ==
    /\ pc = <<"identify_trading_zones">>
    /\ returned = {}
    /\ date = None
    /\ jd = None
    /\ body = None
    /\ position = None
    /\ raised = "none"
    /\ swiss = None
    /\ \/ planet_data = <<>> /\ price_levels = <<>>
       \/ \E b \in ZoneBodies, d \in ZoneDataSamples :
             /\ planet_data = <<Entry(b, 0, 0)>>
             /\ price_levels = [x \in {b} |-> d]
       \/ \E b1 \in ZoneBodies, b2 \in ZoneBodies, d1 \in ZoneDataSamples,
             d2 \in ZoneDataSamples :
             /\ b1 # b2
             /\ planet_data = <<Entry(b1, 0, 0), Entry(b2, 0, 0)>>
             /\ price_levels = [x \in {b1, b2} |-> IF x = b1 THEN d1 ELSE d2]
    /\ current_price \in ZonePrices
    /\ daily_cycles = None
    /\ previous_cycles = None
    /\ level_inputs = None
    /\ levels = None
    /\ intraday_levels \in IntradaySamples
    /\ trading_zones = None
    /\ market_type = None
    /\ ist_time = None
    /\ signals = None
    /\ result = None

NextZones == IdentifyTradingZones
SpecZones == InitZones /\ [][NextZones]_vars

(***************************************************************************)
(* Spec: one report, the steps of generate_planetary_report in the order   *)
(* it makes them.                                                          *)
(***************************************************************************)
\* a timestamp at which the time conversions overflow
LastEvening == [year |-> 9999, month |-> 12, day |-> 31, hour |-> 20 * HourScale]

TimeConversions ==
    /\ pc # <<>> /\ Head(pc) = "time_conversions"
    /\ IF time_conversion_error(date) # "none"
       THEN /\ raised' = time_conversion_error(date)
            /\ pc' = skip_to_return(pc)
            /\ UNCHANGED <<ist_time, returned>>
       ELSE /\ ist_time' = ist_time_of(date)
            /\ pc' = Tail(pc)
            /\ returned' = returned \cup {"time_conversions"}
            /\ UNCHANGED raised
    /\ UNCHANGED <<date, jd, body, position, swiss, planet_data, current_price,
                   price_levels, daily_cycles, previous_cycles, level_inputs, levels,
                   intraday_levels, trading_zones, market_type, signals, result>>

CalculateIntradayLevels ==
    /\ pc # <<>> /\ Head(pc) = "calculate_intraday_levels"
    /\ intraday_levels' = calculate_intraday_levels(current_price, planet_data, ist_time)
    /\ pc' = Tail(pc)
    /\ returned' = returned \cup {"calculate_intraday_levels"}
    /\ UNCHANGED <<date, jd, body, position, raised, swiss, planet_data, current_price,
                   price_levels, daily_cycles, previous_cycles, level_inputs, levels,
                   trading_zones, market_type, ist_time, signals, result>>

CalculateEntryExitTimes ==
    /\ pc # <<>> /\ Head(pc) = "calculate_entry_exit_times"
    /\ signals' = calculate_entry_exit_times(planet_data, ist_time, current_price, market_type)
    /\ pc' = Tail(pc)
    /\ returned' = returned \cup {"calculate_entry_exit_times"}
    /\ UNCHANGED <<date, jd, body, position, raised, swiss, planet_data, current_price,
                   price_levels, daily_cycles, previous_cycles, level_inputs, levels,
                   intraday_levels, trading_zones, market_type, ist_time, result>>

\* the lists filtered for market hours take the place of the unfiltered ones
FilterForMarketHours ==
    /\ pc # <<>> /\ Head(pc) = "filter_for_market_hours"
    /\ daily_cycles' = cycles_within_market_hours(daily_cycles, ist_time, market_type)
    /\ intraday_levels' = within_market_hours(intraday_levels, market_type)
    /\ signals' = [entry_signals |-> within_market_hours(signals.entry_signals, market_type),
                   exit_signals |-> within_market_hours(signals.exit_signals, market_type)]
    /\ pc' = Tail(pc)
    /\ returned' = returned \cup {"filter_for_market_hours"}
    /\ UNCHANGED <<date, jd, body, position, raised, swiss, planet_data, current_price,
                   price_levels, previous_cycles, level_inputs, levels, trading_zones,
                   market_type, ist_time, result>>

\* the return of the result, from the try block or from the except clause,
\* which lets no exception through to the caller
GeneratePlanetaryReport ==
    /\ pc # <<>> /\ Head(pc) = "generate_planetary_report"
    /\ result' = report_outcome(raised, planet_data, price_levels, daily_cycles,
                                intraday_levels, trading_zones, signals, market_type)
    /\ raised' = "none"
    /\ pc' = Tail(pc)
    /\ returned' = returned \cup {"generate_planetary_report"}
    /\ UNCHANGED <<date, jd, body, position, swiss, planet_data, current_price,
                   price_levels, daily_cycles, previous_cycles, level_inputs, levels,
                   intraday_levels, trading_zones, market_type, ist_time, signals>>

Init ==
    /\ pc = <<"time_conversions", "julian_day", "get_robust_planetary_positions",
              "calculate_planetary_price_levels", "calculate_time_cycles",
              "calculate_intraday_levels", "calculate_entry_exit_times",
              "filter_for_market_hours", "identify_trading_zones",
              "generate_planetary_report">>
    /\ returned = {}
    /\ date \in ReportDates \cup {LastEvening}
    /\ jd = None
    /\ body = None
    /\ position = None
    /\ raised = "none"
    /\ swiss \in SwissSamples
    /\ planet_data = None
    /\ current_price \in PriceSamples
    /\ price_levels = None
    /\ daily_cycles = None
    /\ previous_cycles = None
    /\ level_inputs = None
    /\ levels = None
    /\ intraday_levels = None
    /\ trading_zones = None
    /\ market_type \in {"Indian", "Global"}
    /\ ist_time = None
    /\ signals = None
    /\ result = None

Next ==
    \/ TimeConversions
    \/ JulianDay
    \/ GetRobustPlanetaryPositions
    \/ CalculatePlanetaryPriceLevels
    \/ CalculateTimeCycles
    \/ CalculateIntradayLevels
    \/ CalculateEntryExitTimes
    \/ FilterForMarketHours
    \/ IdentifyTradingZones
    \/ GeneratePlanetaryReport

Spec == Init /\ [][Next]_vars

(***************************************************************************)
(* SpecRobust: the Julian Day of a report and the position query made at   *)
(* it, for every sampled behaviour of Swiss Ephemeris.                     *)
(***************************************************************************)
InitRobust ==
    /\ pc = <<"julian_day", "get_robust_planetary_positions">>
    /\ returned = {}
    /\ date \in ReportDates
    /\ jd = None
    /\ body = None
    /\ position = None
    /\ raised = "none"
    /\ swiss \in SwissSamples
    /\ planet_data = None
    /\ current_price = None
    /\ price_levels = None
    /\ daily_cycles = None
    /\ previous_cycles = None
    /\ level_inputs = None
    /\ levels = None
    /\ intraday_levels = None
    /\ trading_zones = None
    /\ market_type = None
    /\ ist_time = None
    /\ signals = None
    /\ result = None

NextRobust == JulianDay \/ GetRobustPlanetaryPositions
SpecRobust == InitRobust /\ [][NextRobust]_vars

(***************************************************************************)
(* Claims about julian_day                                                 *)
(***************************************************************************)
\* days from 2000-01-01 to a civil date, counted from the calendar rules
LeapsBefore(y) == (y - 1) \div 4 - (y - 1) \div 100 + (y - 1) \div 400
RECURSIVE DaysBeforeMonth(_, _)
DaysBeforeMonth(y, m) == IF m = 1 THEN 0 ELSE DaysBeforeMonth(y, m - 1) + DaysInMonth(y, m - 1)
DaysFrom2000(y, m, d) ==
    365 * (y - 2000) + LeapsBefore(y) - LeapsBefore(2000) + DaysBeforeMonth(y, m) + d - 1

\* C4: julian_day(2000, 1, 1, 12.0) returns exactly 2451545.0
C4_EpochIsJ2000 ==
    (Done /\ date = [year |-> 2000, month |-> 1, day |-> 1, hour |-> 12 * HourScale])
        => jd = 2451545 * JDScale
C4_Witness ==
    Done /\ date = [year |-> 2000, month |-> 1, day |-> 1, hour |-> 12 * HourScale]

\* C5: for every valid Gregorian date of 1900-2100 and hour h, julian_day - 2451545.0
\* is the number of calendar days from 2000-01-01 plus (h - 12)/24 (so that
\* consecutive dates differ by exactly one day, across month ends, year ends,
\* the January/February shift and leap days)
C5_DayCount ==
    Done =>
        jd - J2000 = DaysFrom2000(date.year, date.month, date.day) * JDScale
                     + (date.hour - 12 * HourScale)
C5_Witness ==
    /\ Done
    /\ date.year = 2000 /\ date.month = 2 /\ date.day = 29 /\ date.hour = 0
    /\ jd - J2000 = 59 * JDScale - 12 * HourScale

C10_UnknownBodyRaises ==
    (Done /\ body \notin Bodies) => raised = "ConfigurationError"

(***************************************************************************)
(* Claims about get_robust_planetary_positions                             *)
(***************************************************************************)
\* C3: a position query yields a body state for every one of the ten bodies,
\* whether or not Swiss Ephemeris is available and however many of its per-body
\* calls succeed
C3_AllTenBodies ==
    "get_robust_planetary_positions" \in returned => Keys(planet_data) = Bodies

(***************************************************************************)
(* Claims about calculate_planetary_price_levels                           *)
(***************************************************************************)
Ordered(l) ==
    /\ l.Major_Resistance >= l.Primary_Resistance
    /\ l.Primary_Resistance >= l.Minor_Resistance
    /\ l.Minor_Resistance >= l.Current_Level
    /\ l.Current_Level >= l.Minor_Support
    /\ l.Minor_Support >= l.Primary_Support
    /\ l.Primary_Support >= l.Major_Support

StrictlyOrdered(l) ==
    /\ l.Major_Resistance > l.Primary_Resistance
    /\ l.Primary_Resistance > l.Minor_Resistance
    /\ l.Minor_Resistance > l.Current_Level
    /\ l.Current_Level > l.Minor_Support
    /\ l.Minor_Support > l.Primary_Support
    /\ l.Primary_Support > l.Major_Support

\* C1: for every body, longitude, speed and positive reference price the level
\* set satisfies Major_Resistance >= Primary_Resistance >= Minor_Resistance >=
\* Current_Level >= Minor_Support >= Primary_Support >= Major_Support
C1_LevelOrdering ==
    "calculate_planetary_price_levels" \in returned =>
        \A b \in DOMAIN price_levels : Ordered(price_levels[b].levels)
C1_Witness ==
    /\ "calculate_planetary_price_levels" \in returned
    /\ \E b \in DOMAIN price_levels :
          /\ StrictlyOrdered(price_levels[b].levels)
          /\ price_levels[b].bias < 0
          /\ price_levels[b].retrograde

(***************************************************************************)
(* Claims about calculate_time_cycles                                      *)
(***************************************************************************)
\* the distances of the statement of the cycle solver, from the current
\* longitude c to the target t
Remapped(d) == IF 2 * d > Circle THEN d - Circle ELSE d
ForwardDistance(t, c) == Remapped((t - c) % Circle)
BackwardDistance(t, c) == Remapped((c - t) % Circle)
OffsetHours(d, data) == hours_to_target(d, speed_per_hour(data))
Targets(planet_name) ==
    {PLANETARY_CYCLES[planet_name].major_degrees[k] :
        k \in DOMAIN PLANETARY_CYCLES[planet_name].major_degrees}
EventsFor(planet_name, t) ==
    {k \in DOMAIN daily_cycles :
        daily_cycles[k].planet = planet_name /\ daily_cycles[k].target_degree = t}
InHorizon(h) == Abs(h) <= 24 * 1000

C7_EventIffWithinHorizon ==
    "calculate_time_cycles" \in returned =>
        /\ \A k \in DOMAIN daily_cycles : InHorizon(daily_cycles[k].hours_away)
        /\ \A i \in DOMAIN planet_data : \A t \in Targets(planet_data[i].planet) :
              InHorizon(OffsetHours(ForwardDistance(t, planet_data[i].data.longitude),
                                    planet_data[i].data))
              <=> EventsFor(planet_data[i].planet, t) # {}
C7_Witness ==
    /\ "calculate_time_cycles" \in returned
    /\ \E k \in DOMAIN daily_cycles : daily_cycles[k].hours_away = 0
    /\ \E k \in DOMAIN daily_cycles : Abs(daily_cycles[k].hours_away) = 24 * 1000
    /\ \E i \in DOMAIN planet_data : \E t \in Targets(planet_data[i].planet) :
          EventsFor(planet_data[i].planet, t) = {}

\* C8: the returned list is sorted by absolute hours offset ascending, whatever
\* the signs of the offsets and the bodies of the events
C8_SortedByAbsoluteOffset ==
    "calculate_time_cycles" \in returned =>
        \A k \in 1..(Len(daily_cycles) - 1) :
            Abs(daily_cycles[k].hours_away) <= Abs(daily_cycles[k + 1].hours_away)
C8_Witness ==
    /\ "calculate_time_cycles" \in returned
    /\ \E k \in 1..(Len(daily_cycles) - 1) :
          /\ daily_cycles[k].planet = "Sun" /\ daily_cycles[k].hours_away > 0
          /\ daily_cycles[k + 1].planet = "Moon" /\ daily_cycles[k + 1].hours_away < 0
    /\ planet_data[1].planet = "Moon"

\* C9: when a body's speed is 0, calculate_time_cycles raises no division error:
\* the hourly speed is the floor of 0.001 degree per hour, so every offset of the
\* body is its distance in degrees times 1000 hours, a finite number
C9_ZeroSpeedNoDivisionError ==
    /\ raised # "ZeroDivisionError"
    /\ "calculate_time_cycles" \in returned =>
          \A i \in DOMAIN planet_data : planet_data[i].data.speed = 0 =>
              \A t \in Targets(planet_data[i].planet) :
                  /\ \A k \in EventsFor(planet_data[i].planet, t) :
                        daily_cycles[k].hours_away
                            = ForwardDistance(t, planet_data[i].data.longitude) * 1000
                  /\ InHorizon(ForwardDistance(t, planet_data[i].data.longitude) * 1000)
                        => EventsFor(planet_data[i].planet, t) # {}
C9_Witness ==
    /\ "calculate_time_cycles" \in returned
    /\ \E i \in DOMAIN planet_data :
          /\ planet_data[i].data.speed = 0
          /\ \E k \in DOMAIN daily_cycles :
                /\ daily_cycles[k].planet = planet_data[i].planet
                /\ daily_cycles[k].hours_away # 0

C11_MultiplierInRange ==
    "calculate_planetary_price_levels" \in returned =>
        \A b \in DOMAIN price_levels :
            /\ 6 * (Unit \div 10) <= price_levels[b].multiplier
            /\ price_levels[b].multiplier <= 14 * (Unit \div 10)

\* C12: the strength score stored by calculate_planetary_price_levels lies in
\* the closed range [10, 100]
C12_StrengthClamped ==
    "calculate_planetary_price_levels" \in returned =>
        \A b \in DOMAIN price_levels :
            /\ 10 * Unit <= price_levels[b].strength
            /\ price_levels[b].strength <= 100 * Unit
C12_Witness ==
    /\ "calculate_planetary_price_levels" \in returned
    /\ \E b \in DOMAIN price_levels :
          /\ price_levels[b].strength = 100 * Unit
          /\ raw_strength(price_levels[b].current_degree, Abs(price_levels[b].speed),
                          price_levels[b].multiplier) > 100 * Unit

(***************************************************************************)
(* Claims about the derivation of a level set                              *)
(***************************************************************************)
\* price * tier_pct * multiplier * bias_factor / 100, the distance of a level
\* from the reference price
LevelDistance(tier_pct, bias_factor) ==
    MulDiv(current_price,
           MulDiv(MulDiv(tier_pct, level_inputs.multiplier, Unit), bias_factor, Unit),
           100 * Unit)
\* equal up to the resolution of the fixed point (a millionth of the price)
Near(a, b) == Abs(a - b) <= 1 + current_price \div 100000

\* C13: each derived level is price x (1 +/- tier_pct x multiplier x bias_factor
\* / 100), bias_factor being 1 - bias for resistance and 1 + bias for support,
\* and Current is the reference price itself; with price 100, tiers 2 / 1 / 0.3,
\* multiplier 1 and bias 0 the levels are 102, 101, 100.3, 100, 99.7, 99, 98
\* (levels compared to the cent)
C13_LevelFormula ==
    "levels" \in returned =>
        /\ levels.Current_Level = current_price
        /\ Near(levels.Major_Resistance,
                current_price + LevelDistance(level_inputs.ranges.major, Unit - level_inputs.bias))
        /\ Near(levels.Primary_Resistance,
                current_price + LevelDistance(level_inputs.ranges.primary, Unit - level_inputs.bias))
        /\ Near(levels.Minor_Resistance,
                current_price + LevelDistance(level_inputs.ranges.minor, Unit - level_inputs.bias))
        /\ Near(levels.Minor_Support,
                current_price - LevelDistance(level_inputs.ranges.minor, Unit + level_inputs.bias))
        /\ Near(levels.Primary_Support,
                current_price - LevelDistance(level_inputs.ranges.primary, Unit + level_inputs.bias))
        /\ Near(levels.Major_Support,
                current_price - LevelDistance(level_inputs.ranges.major, Unit + level_inputs.bias))
        /\ (/\ current_price = 100 * PriceScale
            /\ level_inputs = [ranges |-> default_ranges, multiplier |-> Unit, bias |-> 0])
           => levels = [Major_Resistance |-> 10200, Primary_Resistance |-> 10100,
                        Minor_Resistance |-> 10030, Current_Level |-> 10000,
                        Minor_Support |-> 9970, Primary_Support |-> 9900,
                        Major_Support |-> 9800]
C13_Witness ==
    /\ "levels" \in returned
    /\ current_price = 100 * PriceScale
    /\ level_inputs = [ranges |-> default_ranges, multiplier |-> Unit, bias |-> 0]
    /\ levels.Minor_Resistance = 10030 /\ levels.Minor_Support = 9970

(***************************************************************************)
(* Claims about sun_position at the epoch                                  *)
(***************************************************************************)
\* C20: sun_position at Julian Day 2451545.0 returns a longitude within a few
\* hundredths of a degree (less than a tenth) of 280.46
C20_SunAtEpoch ==
    (Done /\ body = "Sun" /\ jd = J2000) =>
        Abs(position.longitude - 28046 * (AngleScale \div 100)) < AngleScale \div 10
C20_Witness ==
    /\ Done /\ body = "Sun" /\ jd = J2000
    /\ position.longitude < sun_L0(0)
    /\ position.longitude > sun_L0(0) - AngleScale \div 10

(***************************************************************************)
(* Claims about identify_trading_zones                                     *)
(***************************************************************************)
Returned == "identify_trading_zones" \in returned
\* the bodies of price_levels that carry a level set
WithLevels == {b \in DOMAIN price_levels : "levels" \in DOMAIN price_levels[b]}
\* the level sets handed over were derived from the reference price
DerivedFromPrice ==
    \A b \in WithLevels : price_levels[b].levels.Current_Level = current_price
ZonesOf(list, b, shown) ==
    {k \in DOMAIN list : list[k].planet = b /\ list[k].level_name = shown}
AllZones ==
    {trading_zones.sell_zones[k] : k \in DOMAIN trading_zones.sell_zones}
    \cup {trading_zones.buy_zones[k] : k \in DOMAIN trading_zones.buy_zones}

TierOf(level) ==
    IF 200 * Abs(level - current_price) <= 3 * current_price THEN 1
    ELSE IF 100 * Abs(level - current_price) <= 3 * current_price THEN 2 ELSE 3

\* C15: every zone's priority is 1 if its distance-percent is at most 1.5, 2 if
\* at most 3.0 and 3 otherwise, on both sides; a level 1.2% above the reference
\* price gets tier 1 and a level 4% above it tier 3
C15_PriorityByDistance ==
    (Returned /\ current_price > 0) =>
        /\ \A z \in AllZones : z.priority = TierOf(z.price)
        /\ \A k \in DOMAIN trading_zones.sell_zones :
              /\ 1000 * trading_zones.sell_zones[k].price = 1012 * current_price
                    => trading_zones.sell_zones[k].priority = 1
              /\ 100 * trading_zones.sell_zones[k].price = 104 * current_price
                    => trading_zones.sell_zones[k].priority = 3
C15_Witness ==
    /\ Returned /\ current_price > 0
    /\ \E k \in DOMAIN trading_zones.sell_zones :
          1000 * trading_zones.sell_zones[k].price = 1012 * current_price
    /\ \E k \in DOMAIN trading_zones.sell_zones :
          100 * trading_zones.sell_zones[k].price = 104 * current_price
    /\ \E k \in DOMAIN trading_zones.buy_zones :
          /\ 200 * trading_zones.buy_zones[k].distance = 3 * current_price
          /\ trading_zones.buy_zones[k].priority = 1
    /\ \E k \in DOMAIN trading_zones.buy_zones : trading_zones.buy_zones[k].priority = 2

\* C16: every zone's quality tier is HIGH if the strength of its body is above
\* 70, MEDIUM if above 50 and at most 70, LOW if at most 50, on both sides
C16_QualityByStrength ==
    Returned =>
        \A z \in AllZones :
            /\ z.strength = (IF "strength" \in DOMAIN price_levels[z.planet]
                             THEN price_levels[z.planet].strength ELSE 50 * Unit)
            /\ z.zone_strength = "HIGH" <=> z.strength > 70 * Unit
            /\ z.zone_strength = "MEDIUM" <=> (50 * Unit < z.strength /\ z.strength <= 70 * Unit)
            /\ z.zone_strength = "LOW" <=> z.strength <= 50 * Unit
C16_Witness ==
    /\ Returned
    /\ \E k \in DOMAIN trading_zones.sell_zones :
          /\ trading_zones.sell_zones[k].strength = 70 * Unit
          /\ trading_zones.sell_zones[k].zone_strength = "MEDIUM"
    /\ \E k \in DOMAIN trading_zones.buy_zones :
          /\ trading_zones.buy_zones[k].strength = 50 * Unit
          /\ trading_zones.buy_zones[k].zone_strength = "LOW"

SortedZones(list) ==
    \A k \in 1..(Len(list) - 1) :
        \/ list[k].priority < list[k + 1].priority
        \/ /\ list[k].priority = list[k + 1].priority
           /\ list[k].distance <= list[k + 1].distance

\* C17: each of the sell-zone and buy-zone lists is sorted by priority ascending,
\* then by distance from the reference price ascending
C17_ZonesSorted ==
    Returned =>
        SortedZones(trading_zones.sell_zones) /\ SortedZones(trading_zones.buy_zones)
C17_Witness ==
    /\ Returned /\ Len(planet_data) = 2
    /\ \E k \in 1..(Len(trading_zones.sell_zones) - 1) :
          /\ trading_zones.sell_zones[k].planet = planet_data[2].planet
          /\ trading_zones.sell_zones[k + 1].planet = planet_data[1].planet
          /\ trading_zones.sell_zones[k].priority = trading_zones.sell_zones[k + 1].priority
    /\ \E k \in 1..(Len(trading_zones.buy_zones) - 1) :
          trading_zones.buy_zones[k].priority < trading_zones.buy_zones[k + 1].priority

\* C18: identify_trading_zones signals no error to its caller, and on an empty
\* set of price-level sets it returns empty sell-zone and buy-zone lists
C18_NoErrorOutcome ==
    Returned =>
        /\ raised = "none"
        /\ DOMAIN price_levels = {} =>
              trading_zones.sell_zones = <<>> /\ trading_zones.buy_zones = <<>>
C18_Witness ==
    /\ Returned
    /\ zones_error(items_order(planet_data, price_levels), price_levels, current_price)
          = "ZeroDivisionError"
    /\ trading_zones = no_zones


\* the angular distance calculate_time_cycles uses for the body at index i of
\* planet_data and the target degree t
DistanceUsed(i, t) ==
    degrees_to_travel(t, PyMod(planet_data[i].data.longitude, Circle))

\* C22: the angular distance used by calculate_time_cycles is
\* (target - current) mod 360 remapped into (-180, 180]: it is never at or
\* below -180 nor above 180, a distance of exactly 180 stays +180, it is
\* congruent to target - current modulo 360, and every emitted event's offset
\* has the sign of that distance
C22_DistanceInHalfOpenRange ==
    "calculate_time_cycles" \in returned =>
        \A i \in DOMAIN planet_data : \A t \in Targets(planet_data[i].planet) :
            /\ DistanceUsed(i, t) > -(180 * AngleScale)
            /\ DistanceUsed(i, t) <= 180 * AngleScale
            /\ (DistanceUsed(i, t) - (t - planet_data[i].data.longitude)) % Circle = 0
            /\ ((t - planet_data[i].data.longitude) % Circle = 180 * AngleScale
                    => DistanceUsed(i, t) = 180 * AngleScale)
            /\ \A k \in EventsFor(planet_data[i].planet, t) :
                  Sgn(daily_cycles[k].hours_away) = Sgn(DistanceUsed(i, t))
C22_Witness ==
    /\ "calculate_time_cycles" \in returned
    /\ \E i \in DOMAIN planet_data : \E t \in Targets(planet_data[i].planet) :
          (t - planet_data[i].data.longitude) % Circle = 180 * AngleScale
    /\ \E k \in DOMAIN daily_cycles : daily_cycles[k].hours_away < 0

\* C23: for every body whose speed magnitude is above the floor, bodies with
\* negative (retrograde) speed included, the hours offset reported for a target
\* is the signed angular distance divided by the signed hourly speed,
\* distance / (speed / 24)
C23_OffsetBySignedSpeed ==
    "calculate_time_cycles" \in returned =>
        \A i \in DOMAIN planet_data : \A t \in Targets(planet_data[i].planet) :
            speed_per_hour_unfloored(planet_data[i].data) > SpeedFloor =>
                \A k \in EventsFor(planet_data[i].planet, t) :
                    daily_cycles[k].hours_away =
                        Sgn(planet_data[i].data.speed)
                        * hours_to_target(DistanceUsed(i, t),
                                          speed_per_hour_unfloored(planet_data[i].data))

\* the width of a tier: (resistance - price) + (price - support)
TierWidth(resistance, support) == (resistance - current_price) + (current_price - support)

\* C24: the bias is applied to resistance and support by opposite amounts,
\* factor 1 - bias above the price and 1 + bias below it, so that the width
\* (resistance - price) + (price - support) of each tier is that of bias 0,
\* twice price x tier_pct x multiplier / 100, whatever the bias; with bias 0
\* resistance and support are symmetric about the reference price
C24_BiasShiftsOppositely ==
    "levels" \in returned =>
        /\ Abs(TierWidth(levels.Major_Resistance, levels.Major_Support)
               - 2 * LevelDistance(level_inputs.ranges.major, Unit))
             <= 2 * (1 + current_price \div 100000)
        /\ Abs(TierWidth(levels.Primary_Resistance, levels.Primary_Support)
               - 2 * LevelDistance(level_inputs.ranges.primary, Unit))
             <= 2 * (1 + current_price \div 100000)
        /\ Abs(TierWidth(levels.Minor_Resistance, levels.Minor_Support)
               - 2 * LevelDistance(level_inputs.ranges.minor, Unit))
             <= 2 * (1 + current_price \div 100000)
        /\ level_inputs.bias > 0 =>
              /\ levels.Major_Resistance - current_price
                    <= current_price - levels.Major_Support
              /\ levels.Minor_Resistance - current_price
                    <= current_price - levels.Minor_Support
        /\ level_inputs.bias < 0 =>
              /\ levels.Major_Resistance - current_price
                    >= current_price - levels.Major_Support
              /\ levels.Minor_Resistance - current_price
                    >= current_price - levels.Minor_Support
        /\ level_inputs.bias = 0 =>
              /\ Near(levels.Major_Resistance - current_price,
                      current_price - levels.Major_Support)
              /\ Near(levels.Primary_Resistance - current_price,
                      current_price - levels.Primary_Support)
              /\ Near(levels.Minor_Resistance - current_price,
                      current_price - levels.Minor_Support)
C24_Witness ==
    /\ "levels" \in returned
    /\ level_inputs.bias < 0
    /\ current_price >= 100 * PriceScale
    /\ levels.Major_Resistance - current_price > current_price - levels.Major_Support
    /\ levels.Major_Support < current_price

(***************************************************************************)
(* Claims about planet_position's solution of Kepler's equation            *)
(***************************************************************************)
\* the elements of the body queried, at the Julian Day queried
ElementAt(name, rate) == elements[body][name] + Lin(elements[body][rate], jd - J2000)
MeanAnomalyAt == mean_anomaly(ElementAt("L", "L_dot"), ElementAt("long_peri", "long_peri_dot"))
\* E = M + e * sin(M), and what one more step E = M + e * sin(E) would give
FirstApproximation ==
    MeanAnomalyAt + Degrees(MulU(ElementAt("e", "e_dot"), Sin(MeanAnomalyAt)))
SecondApproximation ==
    MeanAnomalyAt + Degrees(MulU(ElementAt("e", "e_dot"), Sin(FirstApproximation)))

\* C25: planet_position solves Kepler's equation with exactly one fixed-point
\* step, E = M + e * sin(M): the true anomaly (hence the longitude) and the
\* distance it returns are those of that first approximation, for every body
\* and Julian Day, with no further iteration
C25_OneKeplerStep ==
    (Done /\ body \in DOMAIN elements) =>
        /\ position.distance =
              MulU(ElementAt("a", "a_dot"),
                   Unit - MulU(ElementAt("e", "e_dot"), Cos(FirstApproximation)))
        /\ position.longitude =
              PyMod(Fl(true_anomaly(ElementAt("e", "e_dot"), FirstApproximation)
                       + ElementAt("long_peri", "long_peri_dot")), Circle)
C25_Witness ==
    /\ Done /\ body = "Mercury"
    /\ Abs(SecondApproximation - FirstApproximation) > AngleScale \div 10
    /\ position.distance =
          MulU(ElementAt("a", "a_dot"),
               Unit - MulU(ElementAt("e", "e_dot"), Cos(FirstApproximation)))

(***************************************************************************)
(* Claims about the speeds of the built-in solvers                         *)
(***************************************************************************)
\* the planet_data entry the built-in path stores for the position returned
BuiltinEntry ==
    IF body = "Sun" THEN sun_entry(position)
    ELSE IF body = "Moon" THEN moon_entry(position)
    ELSE planet_entry(position)

\* C27: the speed the built-in solvers return is strictly positive for every
\* body at every Julian Day (sun: 0.9856 + 0.0167 sin M, moon: 13.176358 +
\* 1.434006 cos M', planets: the mean motion L_dot / 36525), so the body state
\* the built-in path stores is never flagged retrograde
C27_BuiltinNeverRetrograde ==
    (Done /\ position # None) =>
        /\ position.speed > 0
        /\ BuiltinEntry.speed > 0
        /\ ~BuiltinEntry.retrograde
C27_Witness ==
    /\ Done /\ position # None
    /\ body = "Sun"
    /\ position.speed < 985600
    /\ ~BuiltinEntry.retrograde

(***************************************************************************)
(* Claims about the source of the states of a report                       *)
(***************************************************************************)
\* what each source gives for a body at the Julian Day of the report
FromSwiss(b) == swiss_entry(swe_calc_ut(jd, b, swiss))
FromBuiltin(b) == BodyState(builtin_position(b, jd), FALSE)
AllFromSwiss ==
    /\ swiss.available
    /\ Cardinality(swiss.ok) >= 5
    /\ Keys(planet_data) = swiss.ok
    /\ \A i \in DOMAIN planet_data : planet_data[i].data = FromSwiss(planet_data[i].planet)
AllFromBuiltin ==
    /\ Keys(planet_data) = Bodies
    /\ Len(planet_data) = Cardinality(Bodies)
    /\ \A i \in DOMAIN planet_data : planet_data[i].data = FromBuiltin(planet_data[i].planet)

\* C28: get_robust_planetary_positions never returns a mix of sources: the
\* states are either all those of Swiss Ephemeris, at least 5 of its calls
\* having succeeded, or all ten those of the built-in solvers; the states
\* recorded by fewer than 5 successful Swiss calls are all overwritten
C28_OneSource ==
    "get_robust_planetary_positions" \in returned =>
        /\ AllFromSwiss \/ AllFromBuiltin
        /\ (swiss.available /\ Cardinality(swiss.ok) < 5) => AllFromBuiltin
        /\ ~swiss.available => AllFromBuiltin
C28_Witness ==
    /\ "get_robust_planetary_positions" \in returned
    /\ swiss.available
    /\ Cardinality(swiss.ok) \in 1..4
    /\ "Mercury" \in swiss.ok \cap swiss.retro
    /\ FromSwiss("Mercury").retrograde
    /\ AllFromBuiltin

(***************************************************************************)
(* Claims about one report                                                 *)
(***************************************************************************)
\* C26: the strength calculate_planetary_price_levels stores is exactly 100 for
\* every body of a report (the raw score is at least 30 + 275 + 18), so every
\* zone identify_trading_zones derives from those level sets has quality HIGH;
\* MEDIUM and LOW are never produced by a report
C26_EveryZoneHigh ==
    /\ "calculate_planetary_price_levels" \in returned =>
          \A b \in DOMAIN price_levels : price_levels[b].strength = 100 * Unit
    /\ "identify_trading_zones" \in returned =>
          /\ \A k \in DOMAIN trading_zones.sell_zones :
                trading_zones.sell_zones[k].zone_strength = "HIGH"
          /\ \A k \in DOMAIN trading_zones.buy_zones :
                trading_zones.buy_zones[k].zone_strength = "HIGH"
C26_Witness ==
    /\ "identify_trading_zones" \in returned
    /\ Len(trading_zones.sell_zones) >= 10
    /\ Len(trading_zones.buy_zones) >= 10
    /\ \E k \in DOMAIN trading_zones.sell_zones :
          /\ trading_zones.sell_zones[k].planet = "Pluto"
          /\ trading_zones.sell_zones[k].zone_strength = "HIGH"

\* C29: the signals calculate_intraday_levels gives are only PRIME SCALP and
\* MONITOR, neither of which names a side, so every time window
\* identify_trading_zones produces from its output carries the bias
\* NEUTRAL ZONE
C29_WindowsNeutral ==
    /\ "calculate_intraday_levels" \in returned =>
          \A k \in DOMAIN intraday_levels :
              intraday_levels[k].signal \in {"PRIME SCALP", "MONITOR"}
    /\ "identify_trading_zones" \in returned =>
          \A k \in DOMAIN trading_zones.high_prob_times :
              /\ trading_zones.high_prob_times[k].bias = "NEUTRAL ZONE"
              /\ trading_zones.high_prob_times[k].signal \in {"PRIME SCALP", "MONITOR"}
C29_Witness ==
    /\ "identify_trading_zones" \in returned
    /\ \E k \in DOMAIN trading_zones.high_prob_times :
          /\ trading_zones.high_prob_times[k].signal = "PRIME SCALP"
          /\ trading_zones.high_prob_times[k].bias = "NEUTRAL ZONE"
          /\ trading_zones.high_prob_times[k].probability = "VERY HIGH"
    /\ Len(trading_zones.high_prob_times) < Len(calculate_intraday_levels(current_price,
                                                    planet_data, ist_time))

\* the signals of both lists
AllSignals == signals.entry_signals \o signals.exit_signals

\* C30: for each of the 24 hourly offsets calculate_entry_exit_times emits at
\* most one signal (never a long entry and an exit for the same time), and
\* only for times inside market hours; every signal emitted has
\* |bullish - bearish| >= 2 and the confidence min(20 x |bullish - bearish|, 95),
\* which lies between 40 and 95
C30_OneSignalPerHour ==
    "calculate_entry_exit_times" \in returned =>
        /\ \A i \in DOMAIN AllSignals : \A j \in DOMAIN AllSignals :
              AllSignals[i].time = AllSignals[j].time => i = j
        /\ \A i \in DOMAIN AllSignals :
              /\ \E h \in 0..23 : AllSignals[i].time = ist_time + h * TimeScale
              /\ is_within_market_hours(AllSignals[i].time, market_type)
              /\ Abs(AllSignals[i].bullish_planets - AllSignals[i].bearish_planets) >= 2
              /\ AllSignals[i].confidence =
                    Min(20 * Abs(AllSignals[i].bullish_planets
                                 - AllSignals[i].bearish_planets), 95)
              /\ AllSignals[i].confidence >= 40
              /\ AllSignals[i].confidence <= 95
        /\ \A i \in DOMAIN signals.entry_signals :
              signals.entry_signals[i].signal_type = "LONG ENTRY"
        /\ \A i \in DOMAIN signals.exit_signals :
              signals.exit_signals[i].signal_type = "SHORT ENTRY / LONG EXIT"
C30_Witness ==
    /\ "calculate_entry_exit_times" \in returned
    /\ Len(AllSignals) \in 1..23
    /\ \E i \in DOMAIN AllSignals :
          /\ AllSignals[i].bullish_planets - AllSignals[i].bearish_planets >= 5
          /\ AllSignals[i].confidence = 95
    /\ \E i \in DOMAIN AllSignals : AllSignals[i].confidence = 60

\* C21: generate_planetary_report never lets an exception through to its
\* caller: when a step raises (here the time conversions, past the last
\* representable datetime), or when no planetary positions are obtained, it
\* returns the ten-element result whose elements are all None; otherwise it
\* returns a ten-element result none of whose elements is None and whose first
\* element is the report
C21_ReportNeverRaises ==
    "generate_planetary_report" \in returned =>
        /\ raised = "none"
        /\ Len(result) = 10
        /\ IF time_conversion_error(date) # "none"
           THEN \A i \in 1..10 : result[i] = None
           ELSE /\ planet_data # <<>>
                /\ result[1] = Some("report")
                /\ \A i \in 1..10 : result[i] # None
C21_Witness ==
    /\ "generate_planetary_report" \in returned
    /\ time_conversion_error(date) = "OverflowError"
    /\ "julian_day" \notin returned
    /\ result = no_data
C21_WitnessReport ==
    /\ "generate_planetary_report" \in returned
    /\ "identify_trading_zones" \in returned
    /\ result[1] = Some("report")
    /\ result[2] = Some(price_levels)
====
